---- MODULE Spec2Model ----
(***************************************************************************)
(* AirControlX: the flight scheduler of src/source.cpp as a state machine. *)
(*                                                                         *)
(* One tick of FlightScheduler::updateSimulation is the chain              *)
(*   UpdateSimulation -> GenerateFlights -> AssignRunways ->               *)
(*   UpdateFlights -> MoveCompletedFlights                                 *)
(* sequenced by pc, exactly as the method calls them.  Random draws of the *)
(* program (emergency draw, airline pick, phase-entry speed, violation     *)
(* injection) are nondeterministic choices from small sets.                *)
(***************************************************************************)
EXTENDS Integers, Sequences, FiniteSets, TLC

(***************************************************************************)
(* Program constants                                                       *)
(***************************************************************************)
SIMULATION_TIME == 300
ARRIVAL_NORTH_INTERVAL == 180
ARRIVAL_SOUTH_INTERVAL == 120
DEPARTURE_EAST_INTERVAL == 150
DEPARTURE_WEST_INTERVAL == 240

HOLDING_MIN_SPEED == 400
HOLDING_MAX_SPEED == 600
APPROACH_MIN_SPEED == 240
APPROACH_MAX_SPEED == 290
LANDING_START_SPEED == 240
LANDING_END_SPEED == 30
TAXI_MIN_SPEED == 15
TAXI_MAX_SPEED == 30
GATE_MAX_SPEED == 5
TAKEOFF_MAX_SPEED == 290
CLIMB_MIN_SPEED == 250
CLIMB_MAX_SPEED == 463
CRUISE_MIN_SPEED == 800
CRUISE_MAX_SPEED == 900

NORTH_EMERGENCY_PROBABILITY == 10
SOUTH_EMERGENCY_PROBABILITY == 5
EAST_EMERGENCY_PROBABILITY == 15
WEST_EMERGENCY_PROBABILITY == 20

COMMERCIAL_FINE == 500000
CARGO_FINE == 700000
\* const float SERVICE_FEE_PERCENTAGE = 0.15: the float nearest to 0.15 is
\* 5033165 / 2^25.
SERVICE_FEE_PERCENTAGE == 5033165
FLOAT_SCALE == 2 ^ 25

VIOLATION_PROBABILITY == 15
MAX_VIOLATION_SPEED_EXCESS == 40
MIN_VIOLATION_SPEED_EXCESS == 5

HOLDING_TIME == 20
APPROACH_TIME == 15
LANDING_TIME == 10
TAXI_TIME == 15
TAKEOFF_TIME == 10
CLIMB_TIME == 20

DUE_SECONDS == 259200
FIRST_AIRCRAFT_ID == 1000
FIRST_AVN_ID == 1000
ARRIVAL_FLIGHT_BASE == 1000
DEPARTURE_FLIGHT_BASE == 2000

(***************************************************************************)
(* Bounds of the model                                                     *)
(***************************************************************************)
\* The simulation clock is run up to this tick.
MaxTime == 62
\* At most this many violation injections are drawn in one behaviour.
MaxInjections == 1
\* Direct calls of generateFlights() are made while fewer flights than this exist.
MaxFlights == 6
\* The menu runs are followed for this many ticks.
MenuTicks == 24

\* Ticks followed in the runs that include the AVN Generator process.
LedgerTicks == 8

\* The Airline Portal starts a payment while fewer requests than this are
\* unread on the pipe to StripePay.
MaxRequests == 2

(***************************************************************************)
(* Enumerations                                                            *)
(***************************************************************************)
Runways == {"RWY_A", "RWY_B", "RWY_C"}
NONE == "NONE"
NoFlight == 0

AirlineNames ==
    {"PIA", "AirBlue", "FedEx", "Pakistan Airforce", "Blue Dart",
     "AghaKhan Air Ambulance"}

\* Airline(name, totalAircrafts, activeFlights) as the constructor registers them.
InitialAirlines ==
    [a \in AirlineNames |->
        [totalAircrafts |-> CASE a = "PIA" -> 6
                              [] a = "AirBlue" -> 4
                              [] a = "FedEx" -> 3
                              [] OTHER -> 2,
         activeFlights |-> CASE a \in {"PIA", "AirBlue"} -> 4
                             [] a \in {"FedEx", "Blue Dart"} -> 2
                             [] OTHER -> 1,
         violations |-> << >>]]

\* The screen after system("clear").
NoOutput == [call |-> "", avnId |-> 0, amount |-> [whole |-> 0, frac |-> 0], text |-> ""]

VARIABLES
    pc,                     \* the call updateSimulation makes next ("idle": between ticks)
    currentSimulationTime,
    lastNorthArrival, lastSouthArrival, lastEastDeparture, lastWestDeparture,
    allFlights,             \* every Aircraft object, in creation order
    activeFlights,          \* indices into allFlights
    completedFlights,       \* indices into allFlights
    airlines,               \* name -> Airline
    allAVNs,                \* the AVN objects of the ledger, in creation order
    runwayAvailable, runwayOccupant, runwayFreeTime,
    runwayAQueue, runwayBQueue, runwayCQueue,
    arrivalAvnIdCounter,    \* static avnIdCounter of ArrivalFlight::checkViolation
    departureAvnIdCounter,  \* static avnIdCounter of DepartureFlight::checkViolation
    avnPipe,                \* IPC messages written to avnWritePipe
    attempts,               \* observation: the assignment attempts of the last assignRunways
    injections,             \* observation: number of violation injections drawn so far
    scenario,               \* the sets the random draws of this run are taken from
    console,                \* observation: the last ledger call and what it printed
    avns,                   \* AVNGenerator::avns
    nextAVNId,              \* AVNGenerator::nextAVNId
    avnToAirline,           \* the messages written to the pipe avnToAirline
    assignedAt,             \* observation: the tick each aircraft was given its runway in, 0 for none
    simulationTime,         \* main's count of the ticks its loop has run
    sigpipe,                \* the disposition of SIGPIPE the program is started with
    generator,              \* the AVN Generator process: "running" or "terminated"
    portal,                 \* the thread running AirlinePortal::run
    stripePay,              \* the StripePay process
    airlineToStripe         \* the unread messages of the pipe airlineToStripe

vars ==
    <<pc, currentSimulationTime, lastNorthArrival, lastSouthArrival,
      lastEastDeparture, lastWestDeparture, allFlights, activeFlights,
      completedFlights, airlines, allAVNs, runwayAvailable, runwayOccupant,
      runwayFreeTime, runwayAQueue, runwayBQueue, runwayCQueue,
      arrivalAvnIdCounter, departureAvnIdCounter, avnPipe, attempts, injections,
      scenario, console, avns, nextAVNId, avnToAirline, assignedAt, simulationTime,
      sigpipe, generator, portal, stripePay, airlineToStripe>>

\* What the Airline Portal and StripePay leave alone.
mainProcess ==
    <<pc, currentSimulationTime, lastNorthArrival, lastSouthArrival,
      lastEastDeparture, lastWestDeparture, allFlights, activeFlights,
      completedFlights, airlines, allAVNs, runwayAvailable, runwayOccupant,
      runwayFreeTime, runwayAQueue, runwayBQueue, runwayCQueue,
      arrivalAvnIdCounter, departureAvnIdCounter, avnPipe, attempts, injections,
      scenario, console, avns, nextAVNId, avnToAirline, assignedAt, simulationTime>>

\* What the scheduler's tick and the menu's ledger calls leave alone.
childProcesses == <<sigpipe, generator, portal, stripePay, airlineToStripe>>

(***************************************************************************)
(* Random draws                                                            *)
(*                                                                         *)
(* scenario fixes, for a whole run, the values the program's random draws  *)
(* are taken from:                                                         *)
(*   spawn[k]   the (airline picked, emergency roll) pairs of stream k,    *)
(*   speedEnds  which ends of a uniform speed range are drawn,             *)
(*   injections how many violation injections may be drawn,                *)
(*   injectable the streams whose aircraft the violation draw may pick,    *)
(*   horizon    the number of ticks the simulation loop is followed for.   *)
(***************************************************************************)
\* a draw from uniform_int_distribution(1, 100): the two ends of the range.
PercentDraw == {1, 100}
\* excessDist(5, MAX_VIOLATION_SPEED_EXCESS): the two ends of the range.
ExcessDraw == {MIN_VIOLATION_SPEED_EXCESS, MAX_VIOLATION_SPEED_EXCESS}
\* uniform_int_distribution(lo, hi): the ends of the range the scenario draws.
SpeedDraw(lo, hi) == {IF e = "lo" THEN lo ELSE hi : e \in scenario.speedEnds}

\* Traffic of every category on the arrival streams (a commercial airline
\* without and with the emergency roll, a cargo airline, and the airline the
\* stream's emergency rule names); commercial, cargo and emergency departures.
TrafficScenario ==
    [spawn |->
       << {<<"PIA", 100>>, <<"PIA", 1>>, <<"FedEx", 100>>, <<"Pakistan Airforce", 100>>},
          {<<"PIA", 100>>, <<"PIA", 1>>, <<"FedEx", 100>>,
           <<"AghaKhan Air Ambulance", 100>>},
          {<<"PIA", 100>>, <<"FedEx", 100>>},
          {<<"PIA", 100>>, <<"PIA", 1>>} >>,
     speedEnds |-> {"hi"},
     horizon |-> MaxTime,
     injections |-> MaxInjections,
     injectable |-> {"NORTH", "SOUTH", "EAST", "WEST"}]

\* One traffic pattern for the violation draws: an Emergency aircraft by airline
\* rule from the North, commercial aircraft from the South and the East, a cargo
\* aircraft from the West.
ViolationScenario ==
    [spawn |->
       << {<<"Pakistan Airforce", 100>>},
          {<<"PIA", 100>>},
          {<<"PIA", 100>>},
          {<<"FedEx", 100>>} >>,
     speedEnds |-> {"hi"},
     horizon |-> MaxTime,
     injections |-> MaxInjections,
     injectable |-> {"NORTH", "SOUTH", "EAST", "WEST"}]

\* The violation draws over aircraft whose speeds are drawn from both ends of
\* their ranges: a commercial aircraft with the emergency flag from the North,
\* commercial aircraft from the South and the East, a cargo aircraft from the
\* West; the draw fires for the arrivals and for the West departure.
BandScenario ==
    [spawn |->
       << {<<"PIA", 1>>},
          {<<"PIA", 100>>},
          {<<"PIA", 100>>},
          {<<"FedEx", 100>>} >>,
     speedEnds |-> {"lo", "hi"},
     horizon |-> MaxTime,
     injections |-> MaxInjections,
     injectable |-> {"NORTH", "SOUTH", "WEST"}]

\* Traffic for runway contention: commercial and emergency aircraft on the North
\* and West streams, commercial and cargo on the South stream, commercial on
\* the East stream; no violation injection.
ContentionScenario ==
    [spawn |->
       << {<<"PIA", 100>>, <<"PIA", 1>>},
          {<<"PIA", 100>>, <<"FedEx", 100>>},
          {<<"PIA", 100>>},
          {<<"PIA", 100>>, <<"PIA", 1>>} >>,
     speedEnds |-> {"hi"},
     horizon |-> MaxTime,
     injections |-> 0,
     injectable |-> {"NORTH", "SOUTH", "EAST", "WEST"}]

\* Commercial aircraft from the North, the South and the East, a cargo aircraft
\* from the West; the violation draw may fire once more than in the other
\* scenarios, and for one aircraft only: the North arrival or the East departure.
PinScenarios ==
    { [spawn |->
         << {<<"PIA", 100>>},
            {<<"PIA", 100>>},
            {<<"PIA", 100>>},
            {<<"FedEx", 100>>} >>,
       speedEnds |-> {"hi"},
       horizon |-> MaxTime,
       injections |-> MaxInjections + 1,
       injectable |-> {d}] : d \in {"NORTH", "EAST"} }

\* One traffic pattern without violation draws, followed for the whole
\* simulation time, so that every stream reaches its interval.
CadenceScenario ==
    [spawn |->
       << {<<"PIA", 100>>},
          {<<"PIA", 100>>},
          {<<"PIA", 100>>},
          {<<"FedEx", 100>>} >>,
     speedEnds |-> {"hi"},
     horizon |-> SIMULATION_TIME,
     injections |-> 0,
     injectable |-> {}]

\* The same traffic offered for longer than the simulation time, so that main's
\* loop condition is what ends the run.
TerminateScenario == [CadenceScenario EXCEPT !.horizon = SIMULATION_TIME + 2]

\* The same traffic without violation draws, followed over the first ticks.
CapacityScenario ==
    [spawn |->
       << {<<"PIA", 100>>},
          {<<"PIA", 100>>},
          {<<"PIA", 100>>},
          {<<"FedEx", 100>>} >>,
     speedEnds |-> {"hi"},
     horizon |-> MenuTicks,
     injections |-> 0,
     injectable |-> {}]

\* The same traffic with the violation draw open for the North arrival.
MenuScenario ==
    [spawn |->
       << {<<"PIA", 100>>},
          {<<"PIA", 100>>},
          {<<"PIA", 100>>},
          {<<"FedEx", 100>>} >>,
     speedEnds |-> {"hi"},
     horizon |-> MenuTicks,
     injections |-> MaxInjections,
     injectable |-> {"NORTH"}]

\* The same traffic with the violation draw open, twice in a run, for both the
\* North arrival and the West departure.
TwoClassScenario ==
    [spawn |->
       << {<<"PIA", 100>>},
          {<<"PIA", 100>>},
          {<<"PIA", 100>>},
          {<<"FedEx", 100>>} >>,
     speedEnds |-> {"hi"},
     horizon |-> MaxTime,
     injections |-> MaxInjections + 1,
     injectable |-> {"NORTH", "WEST"}]

\* A short run with the violation draw open, twice, for both the North arrival
\* and the East departure.
LedgerScenario ==
    [spawn |->
       << {<<"PIA", 100>>},
          {<<"PIA", 100>>},
          {<<"PIA", 100>>},
          {<<"FedEx", 100>>} >>,
     speedEnds |-> {"hi"},
     horizon |-> LedgerTicks,
     injections |-> MaxInjections + 1,
     injectable |-> {"NORTH", "EAST"}]

(***************************************************************************)
(* main: pipes, forks and the processes they start                         *)
(***************************************************************************)
Processes == {"parent", "generator", "stripePay"}
Pipes == {"atcToAvn", "avnToAirline", "airlineToAvn", "airlineToStripe", "stripeToAvn"}

\* The pipes whose read end a process still holds after the close() calls of
\* its branch of main.
ReadEndOpen ==
    [p \in Processes |->
       CASE p = "generator" ->
              Pipes \ {"avnToAirline", "airlineToStripe", "stripeToAvn"}
         [] p = "stripePay" ->
              Pipes \ {"atcToAvn", "avnToAirline", "airlineToAvn", "stripeToAvn"}
         [] OTHER ->
              Pipes \ {"avnToAirline", "airlineToStripe", "stripeToAvn"}]

\* A terminated process holds no descriptor.
Alive(p) ==
    CASE p = "generator" -> generator = "running"
      [] p = "stripePay" -> stripePay.pc # "terminated"
      [] OTHER -> TRUE

\* The processes that can read from a pipe.
Readers(pipe) == {p \in Processes : Alive(p) /\ pipe \in ReadEndOpen[p]}

\* SIGPIPE is never set by the program, so it has the disposition the program
\* was started with: the default (terminate) or ignored.
Dispositions == {"SIG_DFL", "SIG_IGN"}

\* write() to a pipe: "written" with a reader; without one the process gets
\* SIGPIPE and is terminated, or, with the signal ignored, the call fails with
\* EPIPE (a result no caller in the program looks at).
Write(pipe) ==
    IF Readers(pipe) # {} THEN "written"
    ELSE IF sigpipe = "SIG_DFL" THEN "terminated" ELSE "EPIPE"

\* A thread with no mutex held, at the given position.
Thread(at) == [pc |-> at, held |-> << >>, caller |-> "", avnId |-> 0,
               amount |-> [whole |-> 0, frac |-> 0]]

\* The child processes after the forks: the generator and StripePay in their
\* run loops, nothing on the pipe to StripePay; the Airline Portal at its menu.
Forked ==
    /\ generator = "running"
    /\ stripePay = Thread("read")
    /\ portal = Thread("menu")
    /\ airlineToStripe = << >>

(***************************************************************************)
(* FlightScheduler::FlightScheduler                                        *)
(***************************************************************************)
SchedulerConstructed ==
    /\ currentSimulationTime = 0
    /\ lastNorthArrival = 0
    /\ lastSouthArrival = 0
    /\ lastEastDeparture = 0
    /\ lastWestDeparture = 0
    /\ allFlights = << >>
    /\ activeFlights = << >>
    /\ completedFlights = << >>
    /\ airlines = InitialAirlines
    /\ allAVNs = << >>
    /\ runwayAvailable = [r \in Runways |-> TRUE]
    /\ runwayOccupant = [r \in Runways |-> NoFlight]
    /\ runwayFreeTime = [r \in Runways |-> 0]
    /\ runwayAQueue = {}
    /\ runwayBQueue = {}
    /\ runwayCQueue = {}
    /\ arrivalAvnIdCounter = FIRST_AVN_ID
    /\ departureAvnIdCounter = FIRST_AVN_ID
    /\ avnPipe = << >>
    /\ attempts = << >>
    /\ injections = 0
    /\ console = NoOutput
    /\ avns = << >>
    /\ nextAVNId = FIRST_AVN_ID
    /\ avnToAirline = << >>
    /\ assignedAt = << >>
    /\ simulationTime = 0
    /\ Forked

\* The constructed scheduler at the head of the simulation loop, the program
\* started with the default signal dispositions.
Constructed == pc = "idle" /\ SchedulerConstructed /\ sigpipe = "SIG_DFL"

\* The same with main at its menu.
AtMenu == pc = "menu" /\ SchedulerConstructed /\ sigpipe = "SIG_DFL"

Init == Constructed /\ scenario = TrafficScenario

\* The same scheduler under the contention traffic.
InitAPI == Constructed /\ scenario = ContentionScenario

\* The same scheduler under the single traffic pattern with violation draws.
InitV == Constructed /\ scenario = ViolationScenario

\* The same scheduler under the traffic pattern with repeated violation draws.
InitPin == Constructed /\ scenario \in PinScenarios

\* The same scheduler for the runs in which the airlines lose their capacity.
InitCapacity == Constructed /\ scenario = CapacityScenario

\* The constructed scheduler with main at its menu.
InitMenu == AtMenu /\ scenario = MenuScenario

\* The same with violation draws for an arrival and a departure.
InitPay == AtMenu /\ scenario = LedgerScenario

\* main at its menu, the simulation followed up to its end.
InitTerminate == AtMenu /\ scenario = TerminateScenario

\* The same scheduler followed for the whole simulation time.
InitCadence == Constructed /\ scenario = CadenceScenario

\* The same scheduler with speeds drawn from both ends of their ranges.
InitBand == Constructed /\ scenario = BandScenario

\* The same scheduler with violation draws for an arrival and a departure.
InitTwoClass == Constructed /\ scenario = TwoClassScenario

\* The Airline Portal and StripePay, the program started with either
\* disposition of SIGPIPE.
InitPortal ==
    /\ pc = "menu"
    /\ SchedulerConstructed
    /\ sigpipe \in Dispositions
    /\ scenario = MenuScenario

\* The scheduler and the AVN Generator after the forks of main, the program
\* started with either disposition of SIGPIPE.
InitLedger ==
    /\ pc = "idle"
    /\ SchedulerConstructed
    /\ sigpipe \in Dispositions
    /\ scenario = LedgerScenario

(***************************************************************************)
(* FlightScheduler::generateFlights                                        *)
(***************************************************************************)
\* The four traffic streams, in the order generateFlights handles them.
Streams ==
    << [direction |-> "NORTH", kind |-> "Arrival", interval |-> ARRIVAL_NORTH_INTERVAL,
        first |-> 1, emergencyProbability |-> NORTH_EMERGENCY_PROBABILITY,
        emergencyAirlines |-> {"Pakistan Airforce"}, base |-> ARRIVAL_FLIGHT_BASE],
       [direction |-> "SOUTH", kind |-> "Arrival", interval |-> ARRIVAL_SOUTH_INTERVAL,
        first |-> 2, emergencyProbability |-> SOUTH_EMERGENCY_PROBABILITY,
        emergencyAirlines |-> {"AghaKhan Air Ambulance"}, base |-> ARRIVAL_FLIGHT_BASE],
       [direction |-> "EAST", kind |-> "Departure", interval |-> DEPARTURE_EAST_INTERVAL,
        first |-> 3, emergencyProbability |-> EAST_EMERGENCY_PROBABILITY,
        emergencyAirlines |-> {"Pakistan Airforce"}, base |-> DEPARTURE_FLIGHT_BASE],
       [direction |-> "WEST", kind |-> "Departure", interval |-> DEPARTURE_WEST_INTERVAL,
        first |-> 4, emergencyProbability |-> WEST_EMERGENCY_PROBABILITY,
        emergencyAirlines |-> {}, base |-> DEPARTURE_FLIGHT_BASE] >>

\* The airlines a spawn may pick: those with activeFlights > 0.
EligibleAirlines(al) == {a \in DOMAIN al : al[a].activeFlights > 0}

\* "Determine flight type": cargo by airline, then emergency by draw or airline.
FlightTypeOf(airline, isEmergency, emergencyAirlines) ==
    IF isEmergency \/ airline \in emergencyAirlines THEN "EMERGENCY"
    ELSE IF airline \in {"FedEx", "Blue Dart"} THEN "CARGO"
    ELSE "COMMERCIAL"

\* "Set priority (emergency = 3, cargo = 2, commercial = 1)".
PriorityOf(isEmergency, type) ==
    IF isEmergency THEN 3 ELSE IF type = "CARGO" THEN 2 ELSE 1

\* airline.substr(0, 2)
Prefix(airline) ==
    CASE airline = "PIA" -> "PI"
      [] airline = "AirBlue" -> "Ai"
      [] airline = "FedEx" -> "Fe"
      [] airline = "Pakistan Airforce" -> "Pa"
      [] airline = "Blue Dart" -> "Bl"
      [] airline = "AghaKhan Air Ambulance" -> "Ag"
      [] OTHER -> "??"

\* Aircraft::Aircraft with ArrivalFlight::ArrivalFlight / DepartureFlight::DepartureFlight.
\* scheduledTime is the wall clock at creation, which grows from one creation to
\* the next: the creation number stands for it.
NewFlight(s, airline, isEmergency, speed, count) ==
    LET type == FlightTypeOf(airline, isEmergency, s.emergencyAirlines) IN
    [id |-> FIRST_AIRCRAFT_ID + count,
     kind |-> s.kind,
     flightNumber |-> <<Prefix(airline), s.base + count>>,
     airline |-> airline,
     type |-> type,
     direction |-> s.direction,
     priority |-> PriorityOf(isEmergency, type),
     isEmergency |-> isEmergency,
     scheduledTime |-> count + 1,
     state |-> IF s.kind = "Arrival" THEN "HOLDING" ELSE "AT_GATE",
     stateTime |-> 0,
     currentSpeed |-> speed,
     hasActiveViolation |-> FALSE,
     currentViolation |-> << >>,
     assignedRunway |-> NONE,
     violatedStates |-> {},
     maintainViolationSpeed |-> FALSE,
     violationSpeed |-> 0]

\* Mutant of StreamFires: the first-activation tick is not tested.
StreamFiresIntervalOnly(now, last, s) == now - last >= s.interval

\* The test at the head of each stream's block.
StreamFires(now, last, s) == now - last >= s.interval \/ now = s.first

\* The scheduler fields generateFlights reads and writes.
GenState ==
    [flights |-> allFlights, active |-> activeFlights,
     queueA |-> runwayAQueue, queueB |-> runwayBQueue,
     last |-> <<lastNorthArrival, lastSouthArrival, lastEastDeparture, lastWestDeparture>>,
     crashed |-> FALSE]

\* The rest of a stream's block once the airline and the emergency roll are
\* drawn: the aircraft is built and pushed.
Spawned(g, k, now, d) ==
    LET s == Streams[k] IN
    { LET n == Len(g.flights)
          f == NewFlight(s, d[1], d[2] <= s.emergencyProbability, speed, n)
      IN [flights |-> Append(g.flights, f),
          active |-> Append(g.active, n + 1),
          queueA |-> IF s.kind = "Arrival" THEN g.queueA \cup {n + 1} ELSE g.queueA,
          queueB |-> IF s.kind = "Departure" THEN g.queueB \cup {n + 1} ELSE g.queueB,
          last |-> [g.last EXCEPT ![k] = now],
          crashed |-> FALSE]
      : speed \in IF s.kind = "Arrival"
                  THEN SpeedDraw(HOLDING_MIN_SPEED, HOLDING_MAX_SPEED) ELSE {0} }

\* airlineNames is empty: airlineDist(0, airlineNames.size() - 1) and
\* airlineNames[...] are undefined.  The process is ended by the failed
\* precondition or the wild read, or the read yields a string that names no
\* airline and the block goes on with it.
NoAirlineOutcomes(g, k, now) ==
    {[g EXCEPT !.last[k] = now, !.crashed = TRUE]}
      \cup Spawned(g, k, now, <<"?", 100>>)

\* One stream's block: the states it can leave.
SpawnOutcomes(g, k, now, al) ==
    LET s == Streams[k] IN
    IF g.crashed \/ ~StreamFires(now, g.last[k], s) THEN {g}
    ELSE IF EligibleAirlines(al) = {} THEN NoAirlineOutcomes(g, k, now)
    ELSE UNION { Spawned(g, k, now, d) :
                   d \in {e \in scenario.spawn[k] : e[1] \in EligibleAirlines(al)} }

RECURSIVE GenerateOutcomes(_, _, _, _)
GenerateOutcomes(g, k, now, al) ==
    IF k > Len(Streams) THEN {g}
    ELSE UNION { GenerateOutcomes(g2, k + 1, now, al) : g2 \in SpawnOutcomes(g, k, now, al) }

\* The method body: the fields it writes and those it leaves alone.
GenerateFlightsBody(return) ==
    /\ \E g \in GenerateOutcomes(GenState, 1, currentSimulationTime, airlines) :
         /\ pc' = IF g.crashed THEN "crashed" ELSE return
         /\ allFlights' = g.flights
         /\ activeFlights' = g.active
         /\ runwayAQueue' = g.queueA
         /\ runwayBQueue' = g.queueB
         /\ lastNorthArrival' = g.last[1]
         /\ lastSouthArrival' = g.last[2]
         /\ lastEastDeparture' = g.last[3]
         /\ lastWestDeparture' = g.last[4]
    /\ UNCHANGED <<currentSimulationTime, completedFlights, airlines, allAVNs,
                   runwayAvailable, runwayOccupant, runwayFreeTime, runwayCQueue,
                   arrivalAvnIdCounter, departureAvnIdCounter, avnPipe, attempts,
                   injections, scenario,
                   console, avns, nextAVNId,
                   avnToAirline, assignedAt, simulationTime, childProcesses>>

\* The call made by updateSimulation.
GenerateFlights ==
    /\ pc = "generate"
    /\ GenerateFlightsBody("assign")

\* A call of the public method generateFlights() by a client of the class,
\* between two ticks, at a time when one of the streams fires.
DirectGenerateFlights ==
    /\ pc = "idle"
    /\ Len(allFlights) < MaxFlights
    /\ \E k \in 1..Len(Streams) :
         StreamFires(currentSimulationTime, GenState.last[k], Streams[k])
    /\ GenerateFlightsBody("idle")

\* A client of the class sets the public field activeFlights of every airline
\* it gets from getAirlines() to 0, between two ticks.
GroundAirlines ==
    /\ pc = "idle"
    /\ EligibleAirlines(airlines) # {}
    /\ airlines' = [a \in DOMAIN airlines |-> [airlines[a] EXCEPT !.activeFlights = 0]]
    /\ UNCHANGED <<pc, currentSimulationTime, lastNorthArrival, lastSouthArrival,
                   lastEastDeparture, lastWestDeparture, allFlights, activeFlights,
                   completedFlights, allAVNs, runwayAvailable, runwayOccupant,
                   runwayFreeTime, runwayAQueue, runwayBQueue, runwayCQueue,
                   arrivalAvnIdCounter, departureAvnIdCounter, avnPipe, attempts,
                   injections, scenario, console, avns, nextAVNId,
                   avnToAirline, assignedAt, simulationTime, childProcesses>>

(***************************************************************************)
(* FlightScheduler::updateSimulation: the clock step that opens a tick     *)
(***************************************************************************)
\* Entered from main's loop, "while (... simulationTime < MAX_SIMULATION_TIME)".
UpdateSimulation ==
    /\ pc = "idle"
    /\ simulationTime < SIMULATION_TIME
    /\ currentSimulationTime < scenario.horizon
    /\ currentSimulationTime' = currentSimulationTime + 1
    /\ pc' = "generate"
    /\ UNCHANGED <<lastNorthArrival, lastSouthArrival, lastEastDeparture,
                   lastWestDeparture, allFlights, activeFlights, completedFlights,
                   airlines, allAVNs, runwayAvailable, runwayOccupant, runwayFreeTime,
                   runwayAQueue, runwayBQueue, runwayCQueue, arrivalAvnIdCounter,
                   departureAvnIdCounter, avnPipe, attempts, injections, scenario,
                   console, avns, nextAVNId,
                   avnToAirline, assignedAt, simulationTime, childProcesses>>

(***************************************************************************)
(* FlightScheduler::assignRunways                                          *)
(***************************************************************************)
\* Mutant of CompareAircraftPriority: the priority is not compared.
CompareScheduledTimeOnly(a, b) == a.scheduledTime > b.scheduledTime

\* CompareAircraftPriority: TRUE when a is served after b.
CompareAircraftPriority(a, b) ==
    IF a.priority # b.priority THEN a.priority < b.priority
    ELSE a.scheduledTime > b.scheduledTime

\* Mutant of Top: the aircraft that has waited longest is served first.
TopLongestWaiting(q, flights) ==
    CHOOSE i \in q :
        \A j \in q \ {i} :
           \/ flights[i].scheduledTime < flights[j].scheduledTime
           \/ /\ flights[i].scheduledTime = flights[j].scheduledTime
              /\ ~CompareAircraftPriority(flights[i], flights[j])

\* priority_queue::top: the aircraft no other aircraft of the queue is served before.
Top(q, flights) ==
    CHOOSE i \in q :
        \A j \in q \ {i} : ~CompareAircraftPriority(flights[i], flights[j])

\* "runwayXAvailable && currentSimulationTime >= runwayXFreeTime"
RunwayEligible(avail, free, r, now) == avail[r] /\ now >= free[r]

\* The body of one "if (runway eligible) { ... }" block: flag, occupant and label.
AssignTo(st, i, r) ==
    [st EXCEPT !.avail[r] = FALSE,
               !.occ[r] = i,
               !.flights[i].assignedRunway = r]

\* Mutant of TryRunway: the availability flag is not tested.
TryRunwayIgnoresFlag(a, i, r, cond, free, now) ==
    IF cond /\ now >= free[r]
    THEN [st |-> AssignTo(a.st, i, r), assigned |-> TRUE]
    ELSE a

\* One "Try RWY-x" block: entered when cond holds, assigns when the runway is eligible.
TryRunway(a, i, r, cond, free, now) ==
    IF cond /\ RunwayEligible(a.st.avail, free, r, now)
    THEN [st |-> AssignTo(a.st, i, r), assigned |-> TRUE]
    ELSE a

\* Mutant of AttemptNative: the native runway is tried before RWY-C.
AttemptNativeFirst(st, i, native, nativeDirections, free, now) ==
    LET f  == st.flights[i]
        a0 == [st |-> st, assigned |-> FALSE]
        a1 == TryRunway(a0, i, native, f.direction \in nativeDirections, free, now)
        a2 == TryRunway(a1, i, "RWY_C", ~a1.assigned, free, now)
    IN a2

\* Mutant of AttemptNative: a cargo aircraft is never given its native runway.
AttemptNativeCargoOnlyC(st, i, native, nativeDirections, free, now) ==
    LET f  == st.flights[i]
        a0 == [st |-> st, assigned |-> FALSE]
        a1 == TryRunway(a0, i, "RWY_C", f.type \in {"EMERGENCY", "CARGO"}, free, now)
        a2 == TryRunway(a1, i, native,
                        ~a1.assigned /\ f.type # "CARGO"
                          /\ f.direction \in nativeDirections, free, now)
        a3 == TryRunway(a2, i, "RWY_C", ~a2.assigned /\ f.type # "CARGO", free, now)
    IN a3

\* The three blocks of the queue A loop (native = RWY_A, North/South) and of the
\* queue B loop (native = RWY_B, East/West).
AttemptNative(st, i, native, nativeDirections, free, now) ==
    LET f  == st.flights[i]
        a0 == [st |-> st, assigned |-> FALSE]
        a1 == TryRunway(a0, i, "RWY_C", f.type \in {"EMERGENCY", "CARGO"}, free, now)
        a2 == TryRunway(a1, i, native,
                        ~a1.assigned /\ f.direction \in nativeDirections, free, now)
        a3 == TryRunway(a2, i, "RWY_C", ~a2.assigned /\ f.type # "CARGO", free, now)
    IN a3

\* The single block of the queue C loop.
AttemptOverflow(st, i, free, now) ==
    TryRunway([st |-> st, assigned |-> FALSE], i, "RWY_C", TRUE, free, now)

Attempt(st, i, which, free, now) ==
    CASE which = "A" -> AttemptNative(st, i, "RWY_A", {"NORTH", "SOUTH"}, free, now)
      [] which = "B" -> AttemptNative(st, i, "RWY_B", {"EAST", "WEST"}, free, now)
      [] which = "C" -> AttemptOverflow(st, i, free, now)

\* What one attempt saw and did (observation only).
AttemptRecord(st, i, which, free, now, result) ==
    [flight |-> i, queue |-> which,
     eligible |-> {r \in Runways : RunwayEligible(st.avail, free, r, now)},
     waiting |-> st.waiting,
     runway |-> result]

RECURSIVE ProcessQueue(_, _, _, _)
\* Mutant of AfterAttempt: an aircraft whose attempt failed is not re-queued.
AfterAttemptDrops(w, i, a, which, free, now) ==
    ProcessQueue(
      [st |-> [a.st EXCEPT !.waiting = @ \ {i}],
       queue |-> w.queue \ {i},
       temp |-> w.temp,
       log |-> Append(w.log, AttemptRecord(w.st, i, which, free, now,
                                           a.st.flights[i].assignedRunway))],
      which, free, now)

\* The end of one loop iteration for aircraft i, whose attempt gave a: the
\* aircraft is re-queued when the attempt failed.
AfterAttempt(w, i, a, which, free, now) ==
    ProcessQueue(
      [st |-> [a.st EXCEPT !.waiting = @ \ {i}],
       queue |-> w.queue \ {i},
       temp |-> IF a.assigned THEN w.temp ELSE w.temp \cup {i},
       log |-> Append(w.log, AttemptRecord(w.st, i, which, free, now,
                                           a.st.flights[i].assignedRunway))],
      which, free, now)

\* Mutant of ProcessTop: the aircraft is re-queued whether or not it was assigned.
ProcessTopRequeuesAll(w, i, which, free, now) ==
    IF w.st.flights[i].assignedRunway # NONE
    THEN ProcessQueue([w EXCEPT !.queue = @ \ {i}, !.temp = @ \cup {i}],
                      which, free, now)
    ELSE LET a == Attempt(w.st, i, which, free, now) IN
         ProcessQueue(
           [st |-> [a.st EXCEPT !.waiting = @ \ {i}],
            queue |-> w.queue \ {i},
            temp |-> w.temp \cup {i},
            log |-> Append(w.log, AttemptRecord(w.st, i, which, free, now,
                                                a.st.flights[i].assignedRunway))],
           which, free, now)

\* One loop iteration for the aircraft i at the top of the queue.
ProcessTop(w, i, which, free, now) ==
    IF w.st.flights[i].assignedRunway # NONE
    THEN ProcessQueue([w EXCEPT !.queue = @ \ {i}, !.temp = @ \cup {i}],
                      which, free, now)
    ELSE AfterAttempt(w, i, Attempt(w.st, i, which, free, now), which, free, now)

\* One "while (!queue.empty())" loop.  w carries the runway state, the rest of
\* the queue, the temporary queue and the attempts made so far.
ProcessQueue(w, which, free, now) ==
    IF w.queue = {} THEN w
    ELSE ProcessTop(w, Top(w.queue, w.st.flights), which, free, now)

\* Mutant of ShouldRelease: an arrival is released at the gate only.
ShouldReleaseAtGateOnly(f) ==
    \/ f.kind = "Arrival" /\ f.state = "AT_GATE"
    \/ f.kind = "Departure" /\ f.state \in {"CLIMB", "CRUISE"}

\* The release test of the "Check for runway release" loop.
ShouldRelease(f) ==
    \/ f.kind = "Arrival" /\ f.state \in {"TAXI", "AT_GATE"}
    \/ f.kind = "Departure" /\ f.state \in {"CLIMB", "CRUISE"}

\* Mutant of Release: the occupant is left in place.
ReleaseKeepsOccupant(rs, i, now) ==
    LET r == rs.flights[i].assignedRunway IN
    [flights |-> [rs.flights EXCEPT ![i].assignedRunway = NONE],
     avail |-> [rs.avail EXCEPT ![r] = TRUE],
     occ |-> rs.occ,
     free |-> [rs.free EXCEPT ![r] = now]]

\* The release of one flight's runway.
Release(rs, i, now) ==
    LET r == rs.flights[i].assignedRunway IN
    [flights |-> [rs.flights EXCEPT ![i].assignedRunway = NONE],
     avail |-> [rs.avail EXCEPT ![r] = TRUE],
     occ |-> [rs.occ EXCEPT ![r] = NoFlight],
     free |-> [rs.free EXCEPT ![r] = now]]

\* The release loop over activeFlights, from position k on.
RECURSIVE ReleaseLoop(_, _, _, _)
ReleaseLoop(rs, active, k, now) ==
    IF k > Len(active) THEN rs
    ELSE
      LET i == active[k]
          f == rs.flights[i]
      IN ReleaseLoop(IF f.assignedRunway # NONE /\ ShouldRelease(f)
                     THEN Release(rs, i, now) ELSE rs,
                     active, k + 1, now)

\* The restore of the three queues from the temporary queues, with the runway
\* state rs the release loop leaves.
AssignRestore(wA, wB, wC, rs) ==
    [flights |-> rs.flights, avail |-> rs.avail, occ |-> rs.occ, free |-> rs.free,
     queueA |-> wA.temp, queueB |-> wB.temp, queueC |-> wC.temp, log |-> wC.log]

\* The release loop, after the three queue loops.
AssignRelease(wA, wB, wC, free, now) ==
    AssignRestore(wA, wB, wC,
                  ReleaseLoop([flights |-> wC.st.flights, avail |-> wC.st.avail,
                               occ |-> wC.st.occ, free |-> free],
                              activeFlights, 1, now))

\* The queue C loop, after the queue A and queue B loops.
AssignQueueC(wA, wB, free, now) ==
    AssignRelease(wA, wB,
                  ProcessQueue([st |-> wB.st, queue |-> runwayCQueue, temp |-> {},
                                log |-> wB.log], "C", free, now),
                  free, now)

\* The queue B loop, after the queue A loop.
AssignQueueB(wA, free, now) ==
    AssignQueueC(wA,
                 ProcessQueue([st |-> wA.st, queue |-> runwayBQueue, temp |-> {},
                               log |-> wA.log], "B", free, now),
                 free, now)

\* The three queue loops run on the runway state rs.
AssignFrom(rs) ==
    AssignQueueB(
      ProcessQueue(
        [st |-> [flights |-> rs.flights, avail |-> rs.avail, occ |-> rs.occ,
                 waiting |-> {i \in runwayAQueue \cup runwayBQueue \cup runwayCQueue :
                                allFlights[i].assignedRunway = NONE}],
         queue |-> runwayAQueue, temp |-> {}, log |-> << >>],
        "A", rs.free, currentSimulationTime),
      rs.free, currentSimulationTime)

\* Mutant of AssignResult: the release loop runs before the queue loops.
AssignResultReleaseFirst ==
    AssignFrom(ReleaseLoop([flights |-> allFlights, avail |-> runwayAvailable,
                            occ |-> runwayOccupant, free |-> runwayFreeTime],
                           activeFlights, 1, currentSimulationTime))

\* The whole method, on the runway state the call finds.
AssignResult ==
    AssignFrom([flights |-> allFlights, avail |-> runwayAvailable,
                occ |-> runwayOccupant, free |-> runwayFreeTime])

AssignRunways ==
    /\ pc = "assign"
    /\ \E res \in {AssignResult} :
         /\ allFlights' = res.flights
         /\ runwayAvailable' = res.avail
         /\ runwayOccupant' = res.occ
         /\ runwayFreeTime' = res.free
         /\ runwayAQueue' = res.queueA
         /\ runwayBQueue' = res.queueB
         /\ runwayCQueue' = res.queueC
         /\ attempts' = res.log
         /\ assignedAt' =
              [i \in 1..Len(allFlights) |->
                 IF allFlights[i].assignedRunway = NONE
                      /\ res.flights[i].assignedRunway # NONE
                 THEN currentSimulationTime
                 ELSE IF i \in DOMAIN assignedAt THEN assignedAt[i] ELSE 0]
    /\ pc' = "update"
    /\ UNCHANGED <<currentSimulationTime, lastNorthArrival, lastSouthArrival,
                   lastEastDeparture, lastWestDeparture, activeFlights,
                   completedFlights, airlines, allAVNs, arrivalAvnIdCounter,
                   departureAvnIdCounter, avnPipe, injections, scenario,
                   console, avns, nextAVNId,
                   avnToAirline, simulationTime, childProcesses>>

(***************************************************************************)
(* ArrivalFlight::updateStatus and DepartureFlight::updateStatus           *)
(***************************************************************************)
Max(a, b) == IF a >= b THEN a ELSE b
Min(a, b) == IF a <= b THEN a ELSE b

\* Mutant of Enter: the count of ticks in the phase is not reset.
EnterKeepsStateTime(f, state, speed) ==
    [f EXCEPT !.state = state,
              !.maintainViolationSpeed = FALSE, !.currentSpeed = speed]

\* A phase change: new state, stateTime = 0, the pin cleared, the entry speed.
Enter(f, state, speed) ==
    [f EXCEPT !.state = state, !.stateTime = 0,
              !.maintainViolationSpeed = FALSE, !.currentSpeed = speed]

\* Mutant of LandingSpeed: the ramp rises from the end speed.
LandingSpeedRising(stateTime) ==
    Min(LANDING_START_SPEED,
        LANDING_END_SPEED
          + ((LANDING_START_SPEED - LANDING_END_SPEED) * stateTime) \div LANDING_TIME)

\* The ramp of the LANDING case.
LandingSpeed(stateTime) ==
    Max(LANDING_END_SPEED,
        LANDING_START_SPEED
          - ((LANDING_START_SPEED - LANDING_END_SPEED) * stateTime) \div LANDING_TIME)

\* The ramp of the TAKEOFF_ROLL case.
TakeoffSpeed(stateTime) ==
    Min(TAKEOFF_MAX_SPEED, (TAKEOFF_MAX_SPEED * stateTime) \div TAKEOFF_TIME)

\* Mutant of ArrivalPhaseStep: Approach is left after the Landing dwell time.
ArrivalPhaseStepShortApproach(f) ==
    CASE f.state = "HOLDING" ->
           IF f.stateTime >= HOLDING_TIME /\ f.assignedRunway # NONE
           THEN {Enter(f, "APPROACH", v) :
                   v \in SpeedDraw(APPROACH_MIN_SPEED, APPROACH_MAX_SPEED)}
           ELSE {f}
      [] f.state = "APPROACH" ->
           IF f.stateTime >= LANDING_TIME
           THEN {Enter(f, "LANDING", LANDING_START_SPEED)}
           ELSE {f}
      [] OTHER -> {f}

\* The switch on the state of ArrivalFlight::updateStatus, after stateTime++.
ArrivalPhaseStep(f) ==
    CASE f.state = "HOLDING" ->
           IF f.stateTime >= HOLDING_TIME /\ f.assignedRunway # NONE
           THEN {Enter(f, "APPROACH", v) :
                   v \in SpeedDraw(APPROACH_MIN_SPEED, APPROACH_MAX_SPEED)}
           ELSE {f}
      [] f.state = "APPROACH" ->
           IF f.stateTime >= APPROACH_TIME
           THEN {Enter(f, "LANDING", LANDING_START_SPEED)}
           ELSE {f}
      [] f.state = "LANDING" ->
           LET g == IF ~f.maintainViolationSpeed
                    THEN [f EXCEPT !.currentSpeed = LandingSpeed(f.stateTime)]
                    ELSE f
           IN IF g.stateTime >= LANDING_TIME
              THEN {Enter(g, "TAXI", v) : v \in SpeedDraw(TAXI_MIN_SPEED, TAXI_MAX_SPEED)}
              ELSE {g}
      [] f.state = "TAXI" ->
           IF f.stateTime >= TAXI_TIME
           THEN {Enter(f, "AT_GATE", 0)}
           ELSE {f}
      [] f.state = "AT_GATE" ->
           {[f EXCEPT !.maintainViolationSpeed = FALSE, !.currentSpeed = 0]}

\* Mutant of DeparturePhaseStep: the gate is left without a runway.
DeparturePhaseStepNoRunway(f) ==
    IF f.state = "AT_GATE"
    THEN {Enter(f, "TAXI", v) : v \in SpeedDraw(TAXI_MIN_SPEED, TAXI_MAX_SPEED)}
    ELSE {f}

\* The switch on the state of DepartureFlight::updateStatus, after stateTime++.
DeparturePhaseStep(f) ==
    CASE f.state = "AT_GATE" ->
           IF f.assignedRunway # NONE
           THEN {Enter(f, "TAXI", v) : v \in SpeedDraw(TAXI_MIN_SPEED, TAXI_MAX_SPEED)}
           ELSE {[f EXCEPT !.currentSpeed = 0]}
      [] f.state = "TAXI" ->
           IF f.stateTime >= TAXI_TIME
           THEN {Enter(f, "TAKEOFF_ROLL", 0)}
           ELSE {f}
      [] f.state = "TAKEOFF_ROLL" ->
           LET g == IF ~f.maintainViolationSpeed
                    THEN [f EXCEPT !.currentSpeed = TakeoffSpeed(f.stateTime)]
                    ELSE f
           IN IF g.stateTime >= TAKEOFF_TIME
              THEN {Enter(g, "CLIMB", v) : v \in SpeedDraw(CLIMB_MIN_SPEED, CLIMB_MAX_SPEED)}
              ELSE {g}
      [] f.state = "CLIMB" ->
           IF f.stateTime >= CLIMB_TIME
           THEN {Enter(f, "CRUISE", v) : v \in SpeedDraw(CRUISE_MIN_SPEED, CRUISE_MAX_SPEED)}
           ELSE {f}
      [] f.state = "CRUISE" -> {f}

PhaseStep(f) ==
    IF f.kind = "Arrival" THEN ArrivalPhaseStep(f) ELSE DeparturePhaseStep(f)

\* "currentSpeed = v; maintainViolationSpeed = true; violationSpeed = currentSpeed"
Pin(f, v) ==
    [f EXCEPT !.currentSpeed = v, !.maintainViolationSpeed = TRUE, !.violationSpeed = v]

\* The inner switch of the injection step of ArrivalFlight::updateStatus.
ArrivalInject(f, excess) ==
    CASE f.state = "HOLDING" -> Pin(f, HOLDING_MAX_SPEED + excess)
      [] f.state = "APPROACH" -> Pin(f, APPROACH_MAX_SPEED + excess)
      [] f.state = "LANDING" ->
           IF f.stateTime > LANDING_TIME \div 2
           THEN Pin(f, f.currentSpeed + excess) ELSE f
      [] f.state = "TAXI" -> Pin(f, TAXI_MAX_SPEED + excess \div 2)
      [] OTHER -> f

\* The inner switch of the injection step of DepartureFlight::updateStatus;
\* side is the extra draw of the CRUISE case.
DepartureInject(f, excess, side) ==
    CASE f.state = "TAXI" -> Pin(f, TAXI_MAX_SPEED + excess \div 2)
      [] f.state = "TAKEOFF_ROLL" ->
           IF f.stateTime > TAKEOFF_TIME \div 2
           THEN Pin(f, TAKEOFF_MAX_SPEED + excess) ELSE f
      [] f.state = "CLIMB" -> Pin(f, CLIMB_MAX_SPEED + excess)
      [] f.state = "CRUISE" ->
           IF side > 50 THEN Pin(f, CRUISE_MAX_SPEED + excess)
           ELSE Pin(f, CRUISE_MIN_SPEED - excess)
      [] OTHER -> f

Inject(f, excess, side) ==
    IF f.kind = "Arrival" THEN ArrivalInject(f, excess) ELSE DepartureInject(f, excess, side)

\* Mutant of MayInject: the emergency flag is not tested.
MayInjectEmergency(f) ==
    ~f.hasActiveViolation /\ ~f.maintainViolationSpeed

\* Mutant of MayInject: a pinned aircraft may be drawn again.
MayInjectPinned(f) ==
    ~f.hasActiveViolation /\ ~f.isEmergency

\* The guard of the injection step.
MayInject(f) ==
    ~f.hasActiveViolation /\ ~f.isEmergency /\ ~f.maintainViolationSpeed

\* The two chained percentage draws.
InjectionFires(chance, roll) ==
    chance <= VIOLATION_PROBABILITY \div 3 /\ roll <= VIOLATION_PROBABILITY

\* "Randomly introduce speed violations": the states the step can leave.  budget
\* is FALSE once the scenario's injections have been drawn in the behaviour, and
\* for an aircraft of a stream the scenario does not draw violations for.
InjectionStep(f, budget) ==
    IF MayInject(f)
    THEN {f} \cup
         (IF budget
          THEN { Inject(f, excess, side) :
                   chance \in {c \in PercentDraw : \E roll \in PercentDraw :
                                                     InjectionFires(c, roll)},
                   excess \in ExcessDraw, side \in PercentDraw }
          ELSE {})
    ELSE IF f.maintainViolationSpeed
    THEN {[f EXCEPT !.currentSpeed = f.violationSpeed]}
    ELSE {f}

(***************************************************************************)
(* ArrivalFlight::checkViolation and DepartureFlight::checkViolation       *)
(***************************************************************************)
NoBand == [violation |-> FALSE, minSpeed |-> 0, maxSpeed |-> 0]
Band(lo, hi) == [violation |-> TRUE, minSpeed |-> lo, maxSpeed |-> hi]

\* The switch of ArrivalFlight::checkViolation.
ArrivalRule(f) ==
    CASE f.state = "HOLDING" ->
           IF f.currentSpeed > HOLDING_MAX_SPEED
           THEN Band(HOLDING_MIN_SPEED, HOLDING_MAX_SPEED) ELSE NoBand
      [] f.state = "APPROACH" ->
           IF f.currentSpeed < APPROACH_MIN_SPEED \/ f.currentSpeed > APPROACH_MAX_SPEED
           THEN Band(APPROACH_MIN_SPEED, APPROACH_MAX_SPEED) ELSE NoBand
      [] f.state = "LANDING" ->
           IF \/ f.currentSpeed > LANDING_START_SPEED
              \/ f.stateTime >= LANDING_TIME /\ f.currentSpeed > LANDING_END_SPEED
           THEN Band(0, LANDING_START_SPEED) ELSE NoBand
      [] f.state = "TAXI" ->
           IF f.currentSpeed > TAXI_MAX_SPEED
           THEN Band(TAXI_MIN_SPEED, TAXI_MAX_SPEED) ELSE NoBand
      [] f.state = "AT_GATE" ->
           IF f.currentSpeed > GATE_MAX_SPEED
           THEN Band(0, GATE_MAX_SPEED) ELSE NoBand

\* Mutant of DepartureRule: Climb is checked on both sides of its band.
DepartureRuleClimbTwoSided(f) ==
    CASE f.state = "AT_GATE" ->
           IF f.currentSpeed > GATE_MAX_SPEED
           THEN Band(0, GATE_MAX_SPEED) ELSE NoBand
      [] f.state = "TAXI" ->
           IF f.currentSpeed > TAXI_MAX_SPEED
           THEN Band(TAXI_MIN_SPEED, TAXI_MAX_SPEED) ELSE NoBand
      [] f.state = "TAKEOFF_ROLL" ->
           IF f.currentSpeed > TAKEOFF_MAX_SPEED
           THEN Band(0, TAKEOFF_MAX_SPEED) ELSE NoBand
      [] f.state = "CLIMB" ->
           IF f.currentSpeed < CLIMB_MIN_SPEED \/ f.currentSpeed > CLIMB_MAX_SPEED
           THEN Band(CLIMB_MIN_SPEED, CLIMB_MAX_SPEED) ELSE NoBand
      [] f.state = "CRUISE" ->
           IF f.currentSpeed < CRUISE_MIN_SPEED \/ f.currentSpeed > CRUISE_MAX_SPEED
           THEN Band(CRUISE_MIN_SPEED, CRUISE_MAX_SPEED) ELSE NoBand

\* The switch of DepartureFlight::checkViolation.
DepartureRule(f) ==
    CASE f.state = "AT_GATE" ->
           IF f.currentSpeed > GATE_MAX_SPEED
           THEN Band(0, GATE_MAX_SPEED) ELSE NoBand
      [] f.state = "TAXI" ->
           IF f.currentSpeed > TAXI_MAX_SPEED
           THEN Band(TAXI_MIN_SPEED, TAXI_MAX_SPEED) ELSE NoBand
      [] f.state = "TAKEOFF_ROLL" ->
           IF f.currentSpeed > TAKEOFF_MAX_SPEED
           THEN Band(0, TAKEOFF_MAX_SPEED) ELSE NoBand
      [] f.state = "CLIMB" ->
           IF f.currentSpeed > CLIMB_MAX_SPEED
           THEN Band(CLIMB_MIN_SPEED, CLIMB_MAX_SPEED) ELSE NoBand
      [] f.state = "CRUISE" ->
           IF f.currentSpeed < CRUISE_MIN_SPEED \/ f.currentSpeed > CRUISE_MAX_SPEED
           THEN Band(CRUISE_MIN_SPEED, CRUISE_MAX_SPEED) ELSE NoBand

Rule(f) == IF f.kind = "Arrival" THEN ArrivalRule(f) ELSE DepartureRule(f)

\* time(nullptr): main sleeps one second after every tick, so the wall clock,
\* counted from the start of the simulation, reads the tick.
WallClock == currentSimulationTime

\* A double that holds whole + frac / 2^25 exactly.
Amount(whole, frac) == [whole |-> whole, frac |-> frac]

\* n * digit * 2^shift / 2^25 as an Amount.
ScaledProduct(n, digit, shift) ==
    LET unit == 2 ^ (25 - shift)
        p == n * digit
    IN Amount(p \div unit, (p % unit) * 2 ^ shift)

\* "fineAmount * SERVICE_FEE_PERCENTAGE": the double product of the fine and the
\* float, which is exact for products below 2^53; computed digit by digit of the
\* float's numerator in base 2^8 to stay within the range of the integers.
TimesServiceFee(fine) ==
    LET b == SERVICE_FEE_PERCENTAGE
        t2 == ScaledProduct(fine, b \div 65536, 16)
        t1 == ScaledProduct(fine, (b \div 256) % 256, 8)
        t0 == ScaledProduct(fine, b % 256, 0)
        frac == t2.frac + t1.frac + t0.frac
    IN Amount(t2.whole + t1.whole + t0.whole + frac \div FLOAT_SCALE, frac % FLOAT_SCALE)

\* "fineAmount + serviceFee"
PlusFine(fine, fee) == Amount(fine + fee.whole, fee.frac)

\* A shared_ptr<AVN> is a sequence: << >> for null, <<avn>> for an object.
\* AVN::AVN.  inState is an observation: the phase the notice was raised in.
NewAVNFields(id, f, band, fine) ==
    [id |-> id, airline |-> f.airline, flightNumber |-> f.flightNumber,
     aircraftType |-> f.type, recordedSpeed |-> f.currentSpeed,
     permissibleSpeedMin |-> band.minSpeed, permissibleSpeedMax |-> band.maxSpeed,
     fineAmount |-> fine,
     serviceFee |-> TimesServiceFee(fine),
     totalAmount |-> PlusFine(fine, TimesServiceFee(fine)),
     issueTime |-> WallClock,
     dueDate |-> WallClock + DUE_SECONDS,
     status |-> "UNPAID",
     inState |-> f.state]

NewAVN(id, f, band) ==
    NewAVNFields(id, f, band,
                 IF f.type = "COMMERCIAL" THEN COMMERCIAL_FINE ELSE CARGO_FINE)

\* Mutant of AlreadyViolated: the violated-phase set is not consulted.
AlreadyViolatedNever(f) == FALSE

\* "Skip violation check if we already had a violation in this state"
AlreadyViolated(f) == f.state \in f.violatedStates

\* checkViolation with the static counter of the aircraft's class at avnId:
\* the aircraft it leaves and whether the counter was used.
CheckViolation(f, avnId) ==
    LET band == Rule(f) IN
    IF AlreadyViolated(f) \/ ~band.violation
    THEN [flight |-> f, created |-> FALSE]
    ELSE [flight |-> [f EXCEPT !.hasActiveViolation = TRUE,
                               !.currentViolation = <<NewAVN(avnId, f, band)>>,
                               !.violatedStates = @ \cup {f.state}],
          created |-> TRUE]

\* updateStatus: stateTime++, the phase switch, the injection step, checkViolation.
UpdateStatus(f, avnId, budget) ==
    { CheckViolation(h, avnId) :
        h \in UNION { InjectionStep(g, budget) :
                        g \in PhaseStep([f EXCEPT !.stateTime = @ + 1]) } }

(***************************************************************************)
(* checkViolation as a function of the aircraft's fields                   *)
(***************************************************************************)
\* The speeds at and next to the limits of the phase rules, and 650.
RuleSpeeds ==
    {0, 5, 6, 15, 30, 31, 239, 240, 241, 249, 250, 290, 291, 400, 463, 464,
     600, 601, 650, 799, 800, 900, 901}

\* An aircraft of stream k in a phase of its class, with a speed, a count of
\* ticks in the phase and a set of phases that have already violated.
RuleAircraft ==
    { [NewFlight(Streams[k], airline, FALSE, 0, 0) EXCEPT
          !.state = st, !.currentSpeed = v, !.stateTime = t,
          !.violatedStates = (IF own THEN {st} ELSE {}) \cup (IF other THEN {"TAXI"} ELSE {})]
      : k \in {1, 3}, airline \in {"PIA", "FedEx", "Pakistan Airforce"},
        st \in {"HOLDING", "APPROACH", "LANDING", "TAXI", "AT_GATE",
                 "TAKEOFF_ROLL", "CLIMB", "CRUISE"},
        v \in RuleSpeeds, t \in {1, LANDING_TIME}, own \in BOOLEAN, other \in BOOLEAN }

\* One aircraft on which checkViolation is about to be called.
InitRule ==
    /\ pc = "call"
    /\ currentSimulationTime = 0
    /\ lastNorthArrival = 0
    /\ lastSouthArrival = 0
    /\ lastEastDeparture = 0
    /\ lastWestDeparture = 0
    /\ \E f \in RuleAircraft :
         /\ f.kind = "Arrival" <=> f.state \in {"HOLDING", "APPROACH", "LANDING"}
                                    \/ (f.direction = "NORTH"
                                          /\ f.state \in {"TAXI", "AT_GATE"})
         /\ allFlights = <<f>>
    /\ activeFlights = <<1>>
    /\ completedFlights = << >>
    /\ airlines = InitialAirlines
    /\ allAVNs = << >>
    /\ runwayAvailable = [r \in Runways |-> TRUE]
    /\ runwayOccupant = [r \in Runways |-> NoFlight]
    /\ runwayFreeTime = [r \in Runways |-> 0]
    /\ runwayAQueue = {}
    /\ runwayBQueue = {}
    /\ runwayCQueue = {}
    /\ arrivalAvnIdCounter = FIRST_AVN_ID
    /\ departureAvnIdCounter = FIRST_AVN_ID
    /\ avnPipe = << >>
    /\ attempts = << >>
    /\ injections = 0
    /\ console = NoOutput
    /\ avns = << >>
    /\ nextAVNId = FIRST_AVN_ID
    /\ avnToAirline = << >>
    /\ assignedAt = << >>
    /\ simulationTime = 0
    /\ Forked
    /\ sigpipe = "SIG_DFL"
    /\ scenario = ViolationScenario

\* A call of checkViolation on the aircraft.
CallCheckViolation ==
    /\ pc = "call"
    /\ LET f == allFlights[1]
           o == CheckViolation(f, IF f.kind = "Arrival" THEN arrivalAvnIdCounter
                                  ELSE departureAvnIdCounter)
       IN /\ allFlights' = <<o.flight>>
          /\ arrivalAvnIdCounter' =
                 IF o.created /\ f.kind = "Arrival" THEN arrivalAvnIdCounter + 1
                 ELSE arrivalAvnIdCounter
          /\ departureAvnIdCounter' =
                 IF o.created /\ f.kind = "Departure" THEN departureAvnIdCounter + 1
                 ELSE departureAvnIdCounter
    /\ pc' = "called"
    /\ UNCHANGED <<currentSimulationTime, lastNorthArrival, lastSouthArrival,
                   lastEastDeparture, lastWestDeparture, activeFlights,
                   completedFlights, airlines, allAVNs, runwayAvailable,
                   runwayOccupant, runwayFreeTime, runwayAQueue, runwayBQueue,
                   runwayCQueue, avnPipe, attempts, injections, scenario,
                   console, avns, nextAVNId,
                   avnToAirline, assignedAt, simulationTime, childProcesses>>

(***************************************************************************)
(* FlightScheduler::updateFlights                                          *)
(***************************************************************************)
\* The IPCMessage updateFlights writes for a flight's current violation.
AvnCreatedMessage(f) ==
    [type |-> "AVN_CREATED",
     avnId |-> f.currentViolation[1].id,
     airline |-> f.airline,
     flightNumber |-> f.flightNumber,
     amount |-> f.currentSpeed,
     minSpeed |-> f.currentViolation[1].permissibleSpeedMin,
     maxSpeed |-> f.currentViolation[1].permissibleSpeedMax,
     details |-> IF f.type = "COMMERCIAL" THEN "COMMERCIAL" ELSE "CARGO"]

\* Mutant of Forward: the violation flag and the current violation are not reset.
ForwardKeepsFlag(u, i) ==
    LET f == u.flights[i] IN
    IF f.hasActiveViolation /\ f.currentViolation # << >> /\ f.airline \in DOMAIN u.airlines
    THEN [u EXCEPT
            !.airlines[f.airline].violations = Append(@, Len(u.avns) + 1),
            !.avns = Append(@, f.currentViolation[1]),
            !.pipe = Append(@, AvnCreatedMessage(f))]
    ELSE u

\* "Check if flight has active violation": the forwarding of one flight's notice.
Forward(u, i) ==
    LET f == u.flights[i] IN
    IF f.hasActiveViolation /\ f.currentViolation # << >> /\ f.airline \in DOMAIN u.airlines
    THEN [u EXCEPT
            !.airlines[f.airline].violations = Append(@, Len(u.avns) + 1),
            !.avns = Append(@, f.currentViolation[1]),
            !.pipe = Append(@, AvnCreatedMessage(f)),
            !.flights[i].hasActiveViolation = FALSE,
            !.flights[i].currentViolation = << >>]
    ELSE u

\* One iteration of the loop of updateFlights for the flight at index i.
UpdateOne(u, i) ==
    LET f == u.flights[i]
        avnId == IF f.kind = "Arrival" THEN u.arrivalCounter ELSE u.departureCounter
    IN { LET pinned == /\ o.flight.maintainViolationSpeed
                       /\ ~f.maintainViolationSpeed \/ o.flight.state # f.state
             u1 == [u EXCEPT
                      !.flights[i] = o.flight,
                      !.arrivalCounter =
                          IF o.created /\ f.kind = "Arrival" THEN @ + 1 ELSE @,
                      !.departureCounter =
                          IF o.created /\ f.kind = "Departure" THEN @ + 1 ELSE @,
                      !.injections = IF pinned THEN @ + 1 ELSE @]
         IN Forward(u1, i)
         : o \in UpdateStatus(f, avnId, /\ u.injections < scenario.injections
                                         /\ f.direction \in scenario.injectable) }

RECURSIVE UpdateLoop(_, _, _)
UpdateLoop(u, active, k) ==
    IF k > Len(active) THEN {u}
    ELSE UNION { UpdateLoop(u2, active, k + 1) : u2 \in UpdateOne(u, active[k]) }

UpdateFlights ==
    /\ pc = "update"
    /\ \E u \in UpdateLoop([flights |-> allFlights, airlines |-> airlines,
                            avns |-> allAVNs, pipe |-> avnPipe,
                            arrivalCounter |-> arrivalAvnIdCounter,
                            departureCounter |-> departureAvnIdCounter,
                            injections |-> injections], activeFlights, 1) :
         /\ allFlights' = u.flights
         /\ airlines' = u.airlines
         /\ allAVNs' = u.avns
         /\ avnPipe' = u.pipe
         /\ arrivalAvnIdCounter' = u.arrivalCounter
         /\ departureAvnIdCounter' = u.departureCounter
         /\ injections' = u.injections
    /\ pc' = "move"
    /\ UNCHANGED <<currentSimulationTime, lastNorthArrival, lastSouthArrival,
                   lastEastDeparture, lastWestDeparture, activeFlights,
                   completedFlights, runwayAvailable, runwayOccupant, runwayFreeTime,
                   runwayAQueue, runwayBQueue, runwayCQueue, attempts, scenario,
                   console, avns, nextAVNId,
                   avnToAirline, assignedAt, simulationTime, childProcesses>>

(***************************************************************************)
(* FlightScheduler::moveCompletedFlights                                   *)
(***************************************************************************)
\* Mutant of IsCompleted: the class of the aircraft is not consulted.
IsCompletedAtGate(f) == f.state = "AT_GATE"

\* Mutant of IsCompleted: an aircraft is completed from the phase in which its
\* runway is due for release.
IsCompletedOffRunway(f) ==
    IF f.kind = "Arrival" THEN f.state \in {"TAXI", "AT_GATE"}
    ELSE f.state \in {"CLIMB", "CRUISE"}

\* ArrivalFlight::isCompleted / DepartureFlight::isCompleted
IsCompleted(f) ==
    IF f.kind = "Arrival" THEN f.state = "AT_GATE" ELSE f.state = "CRUISE"

\* The last call of updateSimulation; with its return main counts the tick
\* ("++simulationTime").
MoveCompletedFlights ==
    /\ pc = "move"
    /\ completedFlights' =
         completedFlights \o SelectSeq(activeFlights, LAMBDA i : IsCompleted(allFlights[i]))
    /\ activeFlights' = SelectSeq(activeFlights, LAMBDA i : ~IsCompleted(allFlights[i]))
    /\ simulationTime' = simulationTime + 1
    /\ pc' = "idle"
    /\ UNCHANGED <<currentSimulationTime, lastNorthArrival, lastSouthArrival,
                   lastEastDeparture, lastWestDeparture, allFlights, airlines, allAVNs,
                   runwayAvailable, runwayOccupant, runwayFreeTime, runwayAQueue,
                   runwayBQueue, runwayCQueue, arrivalAvnIdCounter,
                   departureAvnIdCounter, avnPipe, attempts, injections, scenario,
                   console, avns, nextAVNId,
                   avnToAirline, assignedAt, childProcesses>>

(***************************************************************************)
(* main: the menu around the simulation loop                               *)
(***************************************************************************)
\* Mutant of StartSimulation: the counter is a local of case 1 and starts at 0
\* with every choice of the option.
StartSimulationFromZero ==
    /\ pc = "menu"
    /\ currentSimulationTime < scenario.horizon
    /\ currentSimulationTime' = currentSimulationTime + 1
    /\ simulationTime' = 0
    /\ pc' = "generate"
    /\ console' = NoOutput
    /\ UNCHANGED <<lastNorthArrival, lastSouthArrival, lastEastDeparture,
                   lastWestDeparture, allFlights, activeFlights, completedFlights,
                   airlines, allAVNs, runwayAvailable, runwayOccupant, runwayFreeTime,
                   runwayAQueue, runwayBQueue, runwayCQueue, arrivalAvnIdCounter,
                   departureAvnIdCounter, avnPipe, attempts, injections, scenario,
                   avns, nextAVNId,
                   avnToAirline, assignedAt, childProcesses>>

\* Menu choice 1 with simulationTime < MAX_SIMULATION_TIME: the screen is
\* cleared, the loop is entered and its first updateSimulation() advances the
\* clock.
StartSimulation ==
    /\ pc = "menu"
    /\ simulationTime < SIMULATION_TIME
    /\ currentSimulationTime < scenario.horizon
    /\ currentSimulationTime' = currentSimulationTime + 1
    /\ pc' = "generate"
    /\ console' = NoOutput
    /\ UNCHANGED <<lastNorthArrival, lastSouthArrival, lastEastDeparture,
                   lastWestDeparture, allFlights, activeFlights, completedFlights,
                   airlines, allAVNs, runwayAvailable, runwayOccupant, runwayFreeTime,
                   runwayAQueue, runwayBQueue, runwayCQueue, arrivalAvnIdCounter,
                   departureAvnIdCounter, avnPipe, attempts, injections, scenario,
                   avns, nextAVNId,
                   avnToAirline, assignedAt, simulationTime, childProcesses>>

\* Mutant of StopSimulation: the key is read before updateFlights.
StopSimulationMidTick ==
    /\ pc = "update"
    /\ pc' = "menu"
    /\ console' = NoOutput
    /\ UNCHANGED <<currentSimulationTime, lastNorthArrival, lastSouthArrival,
                   lastEastDeparture, lastWestDeparture, allFlights, activeFlights,
                   completedFlights, airlines, allAVNs, runwayAvailable,
                   runwayOccupant, runwayFreeTime, runwayAQueue, runwayBQueue,
                   runwayCQueue, arrivalAvnIdCounter, departureAvnIdCounter, avnPipe,
                   attempts, injections, scenario, avns, nextAVNId,
                   avnToAirline, assignedAt, simulationTime, childProcesses>>

\* The loop is left after an updateSimulation() has returned: the key read
\* after it was 'q', or the simulation time is used up.
StopSimulation ==
    /\ pc = "idle"
    /\ pc' = "menu"
    /\ console' = NoOutput
    /\ UNCHANGED <<currentSimulationTime, lastNorthArrival, lastSouthArrival,
                   lastEastDeparture, lastWestDeparture, allFlights, activeFlights,
                   completedFlights, airlines, allAVNs, runwayAvailable,
                   runwayOccupant, runwayFreeTime, runwayAQueue, runwayBQueue,
                   runwayCQueue, arrivalAvnIdCounter, departureAvnIdCounter, avnPipe,
                   attempts, injections, scenario, avns, nextAVNId,
                   avnToAirline, assignedAt, simulationTime, childProcesses>>

\* Menu choice 1 with simulationTime >= MAX_SIMULATION_TIME: the loop body is
\* not entered, "Simulation completed!" is printed and the menu returns.
SimulationCompleted ==
    /\ pc = "menu"
    /\ simulationTime >= SIMULATION_TIME
    /\ pc' = "menu"
    /\ console' = [NoOutput EXCEPT !.call = "main", !.text = "Simulation completed!"]
    /\ UNCHANGED <<currentSimulationTime, lastNorthArrival, lastSouthArrival,
                   lastEastDeparture, lastWestDeparture, allFlights, activeFlights,
                   completedFlights, airlines, allAVNs, runwayAvailable,
                   runwayOccupant, runwayFreeTime, runwayAQueue, runwayBQueue,
                   runwayCQueue, arrivalAvnIdCounter, departureAvnIdCounter, avnPipe,
                   attempts, injections, scenario, avns, nextAVNId,
                   avnToAirline, assignedAt, simulationTime, childProcesses>>

(***************************************************************************)
(* FlightScheduler::processAVNPayment and displayAVNDetails                *)
(***************************************************************************)
\* Mutant of AmountAtLeast: every amount is enough.
AmountAlwaysEnough(a, b) == TRUE

\* "amount >= avn->totalAmount" on doubles.
AmountAtLeast(a, b) ==
    a.whole > b.whole \/ (a.whole = b.whole /\ a.frac >= b.frac)

\* Mutant of FirstWithId: without a match the search ends on the last notice.
FirstWithIdOrLast(ledger, avnId) ==
    IF \E n \in 1..Len(ledger) : ledger[n].id = avnId
    THEN CHOOSE n \in 1..Len(ledger) :
           /\ ledger[n].id = avnId
           /\ \A m \in 1..(n - 1) : ledger[m].id # avnId
    ELSE Len(ledger)

\* The position of the first notice of the ledger with the id, 0 if there is none.
FirstWithId(ledger, avnId) ==
    IF \E n \in 1..Len(ledger) : ledger[n].id = avnId
    THEN CHOOSE n \in 1..Len(ledger) :
           /\ ledger[n].id = avnId
           /\ \A m \in 1..(n - 1) : ledger[m].id # avnId
    ELSE 0

\* The ids and amounts the ledger calls are made with.
LedgerIds == {FIRST_AVN_ID - 1, FIRST_AVN_ID, FIRST_AVN_ID + 1}
PaymentAmounts ==
    {Amount(COMMERCIAL_FINE, 0),
     PlusFine(COMMERCIAL_FINE, TimesServiceFee(COMMERCIAL_FINE)),
     PlusFine(CARGO_FINE, TimesServiceFee(CARGO_FINE))}

\* What a ledger call leaves on the screen.
Output(call, avnId, text) ==
    [NoOutput EXCEPT !.call = call, !.avnId = avnId, !.text = text]

\* The same for a call that was made with an amount.
PaymentOutput(avnId, amount, text) ==
    [Output("processAVNPayment", avnId, text) EXCEPT !.amount = amount]

ProcessAVNPaymentBody(avnId, amount) ==
    LET n == FirstWithId(allAVNs, avnId) IN
    IF n = 0
    THEN /\ allAVNs' = allAVNs
         /\ console' = PaymentOutput(avnId, amount, "AVN not found")
    ELSE IF AmountAtLeast(amount, allAVNs[n].totalAmount)
    THEN /\ allAVNs' = [allAVNs EXCEPT ![n].status = "PAID"]
         /\ console' = PaymentOutput(avnId, amount, "Payment processed")
    ELSE /\ allAVNs' = allAVNs
         /\ console' = PaymentOutput(avnId, amount, "Insufficient payment")

\* A call of processAVNPayment(avnId, amount) while main is at its menu.
ProcessAVNPayment ==
    /\ pc = "menu"
    /\ \E avnId \in LedgerIds, amount \in PaymentAmounts :
         ProcessAVNPaymentBody(avnId, amount)
    /\ UNCHANGED <<pc, currentSimulationTime, lastNorthArrival, lastSouthArrival,
                   lastEastDeparture, lastWestDeparture, allFlights, activeFlights,
                   completedFlights, airlines, runwayAvailable, runwayOccupant,
                   runwayFreeTime, runwayAQueue, runwayBQueue, runwayCQueue,
                   arrivalAvnIdCounter, departureAvnIdCounter, avnPipe, attempts,
                   injections, scenario, avns, nextAVNId,
                   avnToAirline, assignedAt, simulationTime, childProcesses>>

DisplayAVNDetailsBody(avnId) ==
    console' = Output("displayAVNDetails", avnId,
                      IF FirstWithId(allAVNs, avnId) = 0 THEN "AVN not found"
                      ELSE "AVN DETAILS")

\* A call of displayAVNDetails(avnId) while main is at its menu.
DisplayAVNDetails ==
    /\ pc = "menu"
    /\ \E avnId \in LedgerIds : DisplayAVNDetailsBody(avnId)
    /\ UNCHANGED <<pc, currentSimulationTime, lastNorthArrival, lastSouthArrival,
                   lastEastDeparture, lastWestDeparture, allFlights, activeFlights,
                   completedFlights, airlines, allAVNs, runwayAvailable,
                   runwayOccupant, runwayFreeTime, runwayAQueue, runwayBQueue,
                   runwayCQueue, arrivalAvnIdCounter, departureAvnIdCounter, avnPipe,
                   attempts, injections, scenario, avns, nextAVNId,
                   avnToAirline, assignedAt, simulationTime, childProcesses>>

(***************************************************************************)
(* AVNGenerator: the child process that reads the pipe atcToAvn            *)
(***************************************************************************)
\* The flight fields the AVN constructor takes, as processMessage passes them.
MessageFlight(message) ==
    [airline |-> message.airline,
     flightNumber |-> message.flightNumber,
     type |-> IF message.details = "COMMERCIAL" THEN "COMMERCIAL" ELSE "CARGO",
     currentSpeed |-> message.amount,
     state |-> "UNKNOWN"]

\* The message processMessage writes to the Airline Portal for a new notice.
AvnCreatedResponse(newAVN) ==
    [type |-> "AVN_CREATED",
     avnId |-> newAVN.id,
     airline |-> newAVN.airline,
     flightNumber |-> newAVN.flightNumber,
     amount |-> newAVN.totalAmount,
     details |-> IF newAVN.status = "PAID" THEN "PAID" ELSE "UNPAID"]

\* AVNGenerator::processMessage, case AVN_CREATED, the only type the scheduler
\* writes to the pipe.
ProcessMessage(message) ==
    LET newAVN == NewAVN(nextAVNId, MessageFlight(message),
                         [minSpeed |-> message.minSpeed, maxSpeed |-> message.maxSpeed])
    IN /\ message.type = "AVN_CREATED"
       /\ nextAVNId' = nextAVNId + 1
       /\ avns' = Append(avns, newAVN)
       /\ avnToAirline' = IF Write("avnToAirline") = "written"
                           THEN Append(avnToAirline, AvnCreatedResponse(newAVN))
                           ELSE avnToAirline
       /\ generator' = IF Write("avnToAirline") = "terminated"
                        THEN "terminated"
                        ELSE generator

\* One iteration of AVNGenerator::run: read the next message of the pipe and
\* process it.  Every message read so far has left one notice in avns, so the
\* next unread message of avnPipe is the one at Len(avns) + 1.
GeneratorRun ==
    /\ generator = "running"
    /\ Len(avns) < Len(avnPipe)
    /\ ProcessMessage(avnPipe[Len(avns) + 1])
    /\ UNCHANGED <<pc, currentSimulationTime, lastNorthArrival, lastSouthArrival,
                   lastEastDeparture, lastWestDeparture, allFlights, activeFlights,
                   completedFlights, airlines, allAVNs, runwayAvailable,
                   runwayOccupant, runwayFreeTime, runwayAQueue, runwayBQueue,
                   runwayCQueue, arrivalAvnIdCounter, departureAvnIdCounter,
                   avnPipe, attempts, injections, scenario, console, assignedAt,
                   simulationTime, sigpipe, portal, stripePay, airlineToStripe>>

(***************************************************************************)
(* lock_guard<mutex> on cout_mutex in StripePay and in the Airline Portal  *)
(***************************************************************************)
\* The thread has a lock_guard on the mutex in scope.
Holds(thread, m) == \E i \in DOMAIN thread.held : thread.held[i] = m

\* lock() on a std::mutex.  On a mutex the calling thread already holds the
\* behaviour is undefined: the builds either block the thread for ever (an
\* ordinary pthread mutex) or let it go on (the lock calls are no-ops in a
\* binary built without thread support).
LockOutcomes(thread, m) ==
    IF Holds(thread, m) THEN {"blocks", "acquires"} ELSE {"acquires"}

\* The thread after a lock_guard on m was constructed with the given outcome,
\* going on at position at.
AfterLock(thread, outcome, m, at) ==
    IF outcome = "blocks"
    THEN [thread EXCEPT !.pc = "blocked"]
    ELSE [thread EXCEPT !.pc = at, !.held = Append(@, m)]

\* The thread after the function that constructed its guards has returned.
Returned(thread, at) == [thread EXCEPT !.pc = at, !.held = << >>]

\* The mutex locked by the statement the thread stands at ("" if that
\* statement is not a lock).
Wants(thread) ==
    IF thread.pc \in {"menu", "viewAirlineAVNs", "payAVN", "incoming", "lock2",
                      "lock3", "processPayment"}
    THEN "cout_mutex"
    ELSE ""

(***************************************************************************)
(* StripePay                                                               *)
(***************************************************************************)
\* StripePay::run: one read of the pipe; a payment request is handed to
\* processPayment.
StripePayRun ==
    /\ stripePay.pc = "read"
    /\ airlineToStripe # << >>
    /\ LET message == Head(airlineToStripe)
       IN stripePay' =
            [stripePay EXCEPT
               !.pc = IF message.type = "PAYMENT_REQUEST"
                      THEN "processPayment" ELSE "read",
               !.avnId = message.avnId,
               !.amount = message.amount]
    /\ airlineToStripe' = Tail(airlineToStripe)
    /\ UNCHANGED <<mainProcess, sigpipe, generator, portal>>

\* StripePay::processPayment up to the write of the confirmation to the pipe
\* stripeToAvn: the first lock_guard, the print, the sleep and the write.
ProcessPayment ==
    /\ stripePay.pc = "processPayment"
    /\ \E outcome \in LockOutcomes(stripePay, "cout_mutex") :
         stripePay' =
           IF outcome = "acquires" /\ Write("stripeToAvn") = "terminated"
           THEN Returned(stripePay, "terminated")
           ELSE AfterLock(stripePay, outcome, "cout_mutex", "lock2")
    /\ UNCHANGED <<mainProcess, sigpipe, generator, portal, airlineToStripe>>

\* StripePay::processPayment from the second lock_guard, lock2, to its return
\* into the read loop.
ProcessPaymentConfirmed ==
    /\ stripePay.pc = "lock2"
    /\ \E outcome \in LockOutcomes(stripePay, "cout_mutex") :
         stripePay' =
           IF outcome = "acquires"
           THEN Returned(stripePay, "read")
           ELSE AfterLock(stripePay, outcome, "cout_mutex", "read")
    /\ UNCHANGED <<mainProcess, sigpipe, generator, portal, airlineToStripe>>

(***************************************************************************)
(* AirlinePortal                                                           *)
(***************************************************************************)
\* AirlinePortal::run: displayMenu (its guard is released on return) and the
\* choice of viewAirlineAVNs or payAVN.
AirlinePortalRun ==
    /\ portal.pc = "menu"
    /\ \E outcome \in LockOutcomes(portal, "cout_mutex"), choice \in {1, 2} :
         /\ choice = 2 => Len(airlineToStripe) < MaxRequests
         /\ portal' =
              IF outcome = "acquires"
              THEN Returned(portal, IF choice = 1 THEN "viewAirlineAVNs" ELSE "payAVN")
              ELSE AfterLock(portal, outcome, "cout_mutex", "menu")
    /\ UNCHANGED <<mainProcess, sigpipe, generator, stripePay, airlineToStripe>>

\* AirlinePortal::viewAirlineAVNs up to its call of processIncomingMessages:
\* the guard, the query written to the generator, the sleep.
ViewAirlineAVNs ==
    /\ portal.pc = "viewAirlineAVNs"
    /\ \E outcome \in LockOutcomes(portal, "cout_mutex") :
         portal' = [AfterLock(portal, outcome, "cout_mutex", "select")
                      EXCEPT !.caller = "viewAirlineAVNs"]
    /\ UNCHANGED <<mainProcess, sigpipe, generator, stripePay, airlineToStripe>>

\* AirlinePortal::payAVN up to its call of processIncomingMessages: the guard,
\* the id read, the query written to the generator, the sleep.
PayAVN ==
    /\ portal.pc = "payAVN"
    /\ \E outcome \in LockOutcomes(portal, "cout_mutex"), avnId \in LedgerIds :
         portal' = [AfterLock(portal, outcome, "cout_mutex", "select")
                      EXCEPT !.caller = "payAVN", !.avnId = avnId]
    /\ UNCHANGED <<mainProcess, sigpipe, generator, stripePay, airlineToStripe>>

\* AirlinePortal::processIncomingMessages, the loop condition and the read:
\* with a message on the portal's pipe the loop body is entered, without one
\* the function returns to its caller, which returns (viewAirlineAVNs) or goes
\* on to its second guard (payAVN).
ProcessIncomingMessages ==
    /\ portal.pc = "select"
    /\ \E arrived \in BOOLEAN :
         portal' =
           IF arrived THEN [portal EXCEPT !.pc = "incoming"]
           ELSE IF portal.caller = "payAVN" THEN [portal EXCEPT !.pc = "lock2"]
           ELSE Returned(portal, "menu")
    /\ UNCHANGED <<mainProcess, sigpipe, generator, stripePay, airlineToStripe>>

\* The body of that loop: the guard, the print of the message; the guard is
\* released at the end of the iteration.
IncomingMessage ==
    /\ portal.pc = "incoming"
    /\ \E outcome \in LockOutcomes(portal, "cout_mutex") :
         portal' =
           IF outcome = "acquires"
           THEN [portal EXCEPT !.pc = "select"]
           ELSE AfterLock(portal, outcome, "cout_mutex", "select")
    /\ UNCHANGED <<mainProcess, sigpipe, generator, stripePay, airlineToStripe>>

\* The payment request payAVN writes to its pipe to StripePay.
PaymentRequest(avnId, amount) ==
    [type |-> "PAYMENT_REQUEST", avnId |-> avnId, amount |-> amount]

\* AirlinePortal::payAVN from its second guard, lock2, to the write of the
\* payment request.
PayAVNRequest ==
    /\ portal.pc = "lock2"
    /\ \E outcome \in LockOutcomes(portal, "cout_mutex"), amount \in PaymentAmounts :
         /\ portal' =
              IF outcome = "acquires" /\ Write("airlineToStripe") = "terminated"
              THEN Returned(portal, "terminated")
              ELSE [AfterLock(portal, outcome, "cout_mutex", "lock3")
                      EXCEPT !.amount = amount]
         /\ airlineToStripe' =
              IF outcome = "acquires" /\ Write("airlineToStripe") = "written"
              THEN Append(airlineToStripe, PaymentRequest(portal.avnId, amount))
              ELSE airlineToStripe
    /\ UNCHANGED <<mainProcess, sigpipe, generator, stripePay>>

\* AirlinePortal::payAVN from its third guard, lock3, to its return.
PayAVNSent ==
    /\ portal.pc = "lock3"
    /\ \E outcome \in LockOutcomes(portal, "cout_mutex") :
         portal' =
           IF outcome = "acquires"
           THEN Returned(portal, "menu")
           ELSE AfterLock(portal, outcome, "cout_mutex", "menu")
    /\ UNCHANGED <<mainProcess, sigpipe, generator, stripePay, airlineToStripe>>

(***************************************************************************)
(* The program: main's simulation loop calling updateSimulation            *)
(***************************************************************************)
Next ==
    \/ UpdateSimulation
    \/ GenerateFlights
    \/ AssignRunways
    \/ UpdateFlights
    \/ MoveCompletedFlights

Spec == Init /\ [][Next]_vars

\* The scheduler driven tick by tick with direct generateFlights() calls between
\* the ticks.
NextAPI ==
    \/ Next
    \/ DirectGenerateFlights

SpecAPI == InitAPI /\ [][NextAPI]_vars

\* The tick chain under the single traffic pattern with violation draws.
SpecV == InitV /\ [][Next]_vars

\* The tick chain under the traffic pattern with repeated violation draws.
SpecPin == InitPin /\ [][Next]_vars

\* The tick chain with a client that takes the capacity from the airlines.
NextCapacity ==
    \/ Next
    \/ GroundAirlines

SpecCapacity == InitCapacity /\ [][NextCapacity]_vars

\* main: the simulation loop entered and left from the menu, and the ledger
\* calls made while the loop is not running.
NextMenu ==
    \/ Next
    \/ StartSimulation
    \/ StopSimulation
    \/ ProcessAVNPayment
    \/ DisplayAVNDetails

SpecMenu == InitMenu /\ [][NextMenu]_vars

\* The same with notices of arrivals and of departures in the ledger.
SpecPay == InitPay /\ [][NextMenu]_vars

\* The tick chain with speeds drawn from both ends of their ranges.
SpecBand == InitBand /\ [][Next]_vars

\* main: the simulation option chosen, left and chosen again up to and past the
\* end of the simulation time.
NextTerminate ==
    \/ Next
    \/ StartSimulation
    \/ StopSimulation
    \/ SimulationCompleted

SpecTerminate == InitTerminate /\ [][NextTerminate]_vars

\* The tick chain followed for the whole simulation time.
SpecCadence == InitCadence /\ [][Next]_vars

\* The tick chain with violation draws for an arrival and a departure.
SpecTwoClass == InitTwoClass /\ [][Next]_vars

\* The Airline Portal's menu choices and StripePay's read loop side by side.
NextPortal ==
    \/ AirlinePortalRun
    \/ ViewAirlineAVNs
    \/ PayAVN
    \/ ProcessIncomingMessages
    \/ IncomingMessage
    \/ PayAVNRequest
    \/ PayAVNSent
    \/ StripePayRun
    \/ ProcessPayment
    \/ ProcessPaymentConfirmed

SpecPortal == InitPortal /\ [][NextPortal]_vars

\* The scheduler's tick chain and the AVN Generator process side by side.
NextLedger ==
    \/ Next
    \/ GeneratorRun

SpecLedger == InitLedger /\ [][NextLedger]_vars

\* checkViolation applied to one aircraft.
NextRule == CallCheckViolation

SpecRule == InitRule /\ [][NextRule]_vars

(***************************************************************************)
(* Properties                                                              *)
(***************************************************************************)
Flights == 1..Len(allFlights)
Notices == 1..Len(allAVNs)

\* The phase an aircraft is created in.
InitialPhase(f) == IF f.kind = "Arrival" THEN "HOLDING" ELSE "AT_GATE"

\* The direction-native runway: A for North/South, B for East/West.
NativeRunway(f) == IF f.direction \in {"NORTH", "SOUTH"} THEN "RWY_A" ELSE "RWY_B"

\* The notices of the ledger raised for aircraft i.
NoticesOf(ledger, f) ==
    {n \in 1..Len(ledger) : ledger[n].flightNumber = f.flightNumber}

\* C1: in every state each runway has at most one holder and no aircraft is
\* the occupant of two runways.
C1_RunwayExclusion ==
    /\ \A r1, r2 \in Runways :
         (r1 # r2 /\ runwayOccupant[r1] # NoFlight)
           => runwayOccupant[r1] # runwayOccupant[r2]
    /\ \A r \in Runways :
         Cardinality({i \in Flights : allFlights[i].assignedRunway = r}) <= 1

\* C1 witness: the three runways are held by aircraft while another aircraft waits.
C1_Witness ==
    /\ \A r \in Runways : runwayOccupant[r] # NoFlight
    /\ runwayBQueue # {}

\* C2: an aircraft's label is R exactly when R's occupant is that aircraft, and a
\* runway's flag is false exactly when it has an occupant.
C2_LabelOccupantFlag ==
    /\ \A i \in Flights : \A r \in Runways :
         allFlights[i].assignedRunway = r <=> runwayOccupant[r] = i
    /\ \A r \in Runways : ~runwayAvailable[r] <=> runwayOccupant[r] # NoFlight

\* C2 witness: one aircraft has been released while another still holds a runway.
C2_Witness ==
    /\ \E i \in Flights :
         allFlights[i].assignedRunway = NONE /\ ShouldRelease(allFlights[i])
    /\ \E j \in Flights : allFlights[j].assignedRunway \in Runways

\* C3: a step in which an aircraft leaves its initial phase (Holding for an
\* Arrival, AtGate for a Departure) starts in a state where it holds a runway.
C3_LeavesInitialPhaseWithRunway ==
    [][\A i \in Flights :
         (allFlights[i].state = InitialPhase(allFlights[i])
            /\ allFlights'[i].state # allFlights[i].state)
           => allFlights[i].assignedRunway # NONE]_vars

\* C3 witness: an arrival without a runway has stayed in Holding beyond the
\* holding time, a departure without a runway has stayed at the gate, and
\* aircraft of both kinds have left their initial phase.
C3_Witness ==
    /\ \E i \in Flights :
         /\ allFlights[i].kind = "Arrival" /\ allFlights[i].state = "HOLDING"
         /\ allFlights[i].assignedRunway = NONE
         /\ allFlights[i].stateTime > HOLDING_TIME
    /\ \E j \in Flights :
         /\ allFlights[j].kind = "Departure" /\ allFlights[j].state = "AT_GATE"
         /\ allFlights[j].assignedRunway = NONE /\ allFlights[j].stateTime >= 2
    /\ \E i \in Flights :
         allFlights[i].kind = "Arrival" /\ allFlights[i].state = "APPROACH"
    /\ \E j \in Flights :
         allFlights[j].kind = "Departure" /\ allFlights[j].state = "TAKEOFF_ROLL"

\* C4: the ledger never holds two notices of one aircraft for one phase, and a
\* step that runs checkViolation in a phase already in the aircraft's
\* violated-phase set creates no notice for it and leaves the set as it was.
C4_OneNoticePerPhase ==
    [][/\ \A m, n \in 1..Len(allAVNs') :
            (allAVNs'[m].flightNumber = allAVNs'[n].flightNumber
               /\ allAVNs'[m].inState = allAVNs'[n].inState) => m = n
       /\ \A i \in Flights :
            allFlights'[i].state \in allFlights[i].violatedStates
              => /\ NoticesOf(allAVNs', allFlights[i]) = NoticesOf(allAVNs, allFlights[i])
                 /\ allFlights'[i].violatedStates = allFlights[i].violatedStates
                 /\ ~allFlights'[i].hasActiveViolation]_vars

\* C4 witness: updateFlights has just run on an aircraft whose speed breaks the
\* rule of its phase, a phase for which it got its notice in an earlier tick.
C4_Witness ==
    /\ pc = "move"
    /\ \E i \in Flights : \E n \in Notices :
         /\ allAVNs[n].flightNumber = allFlights[i].flightNumber
         /\ allAVNs[n].inState = allFlights[i].state
         /\ allAVNs[n].issueTime < currentSimulationTime
         /\ Rule(allFlights[i]).violation

\* C5: no notice of the ledger is for an aircraft of category Emergency.
C5_NoEmergencyNotice ==
    \A n \in Notices : allAVNs[n].aircraftType # "EMERGENCY"

\* C6: priority is 3 exactly for Emergency, 2 exactly for Cargo, 1 exactly for
\* Commercial aircraft.
C6_PriorityMatchesCategory ==
    \A i \in Flights :
        /\ allFlights[i].priority = 3 <=> allFlights[i].type = "EMERGENCY"
        /\ allFlights[i].priority = 2 <=> allFlights[i].type = "CARGO"
        /\ allFlights[i].priority = 1 <=> allFlights[i].type = "COMMERCIAL"

\* The runways an aircraft may be given: its native runway and runway C.
Usable(f) == {NativeRunway(f), "RWY_C"}

C8_QueueOrder ==
    /\ \A k, l \in 1..Len(attempts) :
         (k < l /\ attempts[k].queue = attempts[l].queue)
           => LET f == allFlights[attempts[k].flight]
                  g == allFlights[attempts[l].flight]
              IN /\ \/ f.priority > g.priority
                    \/ f.priority = g.priority /\ f.scheduledTime < g.scheduledTime
                 /\ attempts[k].runway = NONE => attempts[l].runway = NONE
    /\ \A k \in 1..Len(attempts) :
         Usable(allFlights[attempts[k].flight]) \cap attempts[k].eligible # {}
           => attempts[k].runway # NONE
    /\ pc = "update"
         => \A i \in runwayAQueue \cup runwayBQueue :
              \E k \in 1..Len(attempts) :
                 attempts[k].flight = i /\ attempts[k].runway = NONE

\* C8 witness: two aircraft of equal priority, both left over from earlier
\* ticks, were attempted in one queue in one tick; the earlier scheduled one got
\* the runway and the other was left over again.
C8_Witness ==
    \E k, l \in 1..Len(attempts) :
        LET f == allFlights[attempts[k].flight]
            g == allFlights[attempts[l].flight]
        IN /\ k < l
           /\ attempts[k].queue = attempts[l].queue
           /\ f.priority = g.priority /\ f.scheduledTime < g.scheduledTime
           /\ attempts[k].runway # NONE /\ attempts[l].runway = NONE
           /\ f.stateTime >= 2 /\ g.stateTime >= 2

\* The runway the rule of C9 gives an aircraft when the runways of eligible are
\* the eligible ones.
RuleChoice(f, eligible) ==
    IF f.type \in {"EMERGENCY", "CARGO"} /\ "RWY_C" \in eligible THEN "RWY_C"
    ELSE IF NativeRunway(f) \in eligible THEN NativeRunway(f)
    ELSE IF f.type # "CARGO" /\ "RWY_C" \in eligible THEN "RWY_C"
    ELSE NONE

\* C9: every assignment attempt gives the aircraft the runway the rule names:
\* C first for Emergency and Cargo, then the native runway, then C for non-Cargo,
\* else none; a Commercial aircraft gets C only when its native runway is not
\* eligible.
C9_RunwayChoice ==
    \A k \in 1..Len(attempts) :
        LET a == attempts[k]
            f == allFlights[a.flight]
        IN /\ a.runway = RuleChoice(f, a.eligible)
           /\ (f.type = "COMMERCIAL" /\ a.runway = "RWY_C")
                => NativeRunway(f) \notin a.eligible

\* C9 witness: a Commercial aircraft was given runway C because its native
\* runway was not eligible.
C9_Witness ==
    \E k \in 1..Len(attempts) :
        /\ allFlights[attempts[k].flight].type = "COMMERCIAL"
        /\ attempts[k].runway = "RWY_C"
        /\ NativeRunway(allFlights[attempts[k].flight]) \notin attempts[k].eligible

\* C10 as stated: a Cargo aircraft that finds runway C not eligible is not given
\* its native runway in that attempt.
C10_CargoNeverNative ==
    \A k \in 1..Len(attempts) :
        LET a == attempts[k]
            f == allFlights[a.flight]
        IN (f.type = "CARGO" /\ "RWY_C" \notin a.eligible)
             => a.runway # NativeRunway(f)

\* C10 amended: a Cargo aircraft that finds runway C not eligible is given its
\* native runway in that attempt exactly when the native runway is eligible, and
\* is left without a runway otherwise.
C10_CargoFallsBackToNative ==
    \A k \in 1..Len(attempts) :
        LET a == attempts[k]
            f == allFlights[a.flight]
        IN (f.type = "CARGO" /\ "RWY_C" \notin a.eligible)
             => /\ NativeRunway(f) \in a.eligible => a.runway = NativeRunway(f)
                /\ NativeRunway(f) \notin a.eligible => a.runway = NONE

\* C10 witness: a Cargo aircraft found runway C not eligible and got its native
\* runway.
C10_Witness ==
    \E k \in 1..Len(attempts) :
        /\ allFlights[attempts[k].flight].type = "CARGO"
        /\ "RWY_C" \notin attempts[k].eligible
        /\ attempts[k].runway = NativeRunway(allFlights[attempts[k].flight])

\* C11: a runway gets an occupant only in a step that starts with its flag true
\* and the clock at or past its free-since tick; the step that releases a runway
\* gives it to no aircraft and leaves it eligible for the next tick; and the
\* free-since tick of a runway is never ahead of the clock.
C11_EligibleOnly ==
    [][\A r \in Runways :
         /\ (runwayOccupant'[r] # NoFlight /\ runwayOccupant'[r] # runwayOccupant[r])
              => /\ runwayAvailable[r]
                 /\ currentSimulationTime >= runwayFreeTime[r]
                 /\ runwayOccupant[r] = NoFlight
         /\ (runwayOccupant[r] # NoFlight /\ runwayOccupant'[r] = NoFlight)
              => /\ \A k \in 1..Len(attempts') : attempts'[k].runway # r
                 /\ runwayFreeTime'[r] = currentSimulationTime
                 /\ RunwayEligible(runwayAvailable', runwayFreeTime', r,
                                   currentSimulationTime + 1)
         /\ \A k \in 1..Len(attempts') :
              attempts'[k].runway = r => r \in attempts'[k].eligible
         /\ runwayFreeTime'[r] <= currentSimulationTime']_vars

\* C11 witness: a runway was released in this tick while an aircraft that may use
\* it was waiting, and the aircraft is still without a runway.
C11_Witness ==
    /\ pc = "update"
    /\ \E r \in Runways : \E i \in runwayAQueue \cup runwayBQueue :
         /\ runwayFreeTime[r] = currentSimulationTime
         /\ runwayAvailable[r]
         /\ r \in Usable(allFlights[i])
         /\ allFlights[i].assignedRunway = NONE
         /\ \E k \in 1..Len(attempts) :
              attempts[k].flight = i /\ attempts[k].eligible = {}

\* The phases C12 names: an Arrival in Taxi or AtGate, a Departure in Climb or
\* Cruise.
ReleasingPhase(f) ==
    IF f.kind = "Arrival" THEN f.state \in {"TAXI", "AT_GATE"}
    ELSE f.state \in {"CLIMB", "CRUISE"}

\* C12: a call of assignRunways releases every active aircraft that holds a
\* runway as an Arrival in Taxi or AtGate or a Departure in Climb or Cruise
\* (label NONE, occupant cleared, flag true, free-since = current tick); an
\* aircraft holding a runway in another phase keeps it, and the free-since tick
\* of a runway changes only by such a release.
C12_ReleaseCheck ==
    [][pc = "assign" =>
         /\ \A k \in 1..Len(activeFlights) :
              LET i == activeFlights[k]
                  f == allFlights[i]
                  r == f.assignedRunway
              IN /\ (r # NONE /\ ReleasingPhase(f))
                      => /\ allFlights'[i].assignedRunway = NONE
                         /\ runwayOccupant'[r] = NoFlight
                         /\ runwayAvailable'[r]
                         /\ runwayFreeTime'[r] = currentSimulationTime
                 /\ (r # NONE /\ ~ReleasingPhase(f))
                      => /\ allFlights'[i].assignedRunway = r
                         /\ runwayOccupant'[r] = i
                         /\ ~runwayAvailable'[r]
                         /\ runwayFreeTime'[r] = runwayFreeTime[r]
         /\ \A r \in Runways :
              (runwayOccupant[r] = NoFlight
                 \/ ~ReleasingPhase(allFlights[runwayOccupant[r]]))
                => /\ runwayFreeTime'[r] = runwayFreeTime[r]
                   /\ runwayOccupant[r] = NoFlight
                        => runwayAvailable'[r] = (runwayOccupant'[r] = NoFlight)]_vars

\* C12 witness: the release check has just released an aircraft that entered
\* its releasing phase in the tick before, while another aircraft in an earlier
\* phase has kept its runway.
C12_Witness ==
    /\ pc = "update"
    /\ \E i \in Flights : \E r \in Runways :
         /\ ReleasingPhase(allFlights[i]) /\ allFlights[i].stateTime = 0
         /\ allFlights[i].assignedRunway = NONE
         /\ runwayFreeTime[r] = currentSimulationTime
         /\ runwayAvailable[r] /\ runwayOccupant[r] = NoFlight
    /\ \E j \in Flights :
         /\ allFlights[j].assignedRunway \in Runways
         /\ allFlights[j].state \in {"APPROACH", "LANDING", "TAKEOFF_ROLL"}

\* The aircraft entered its releasing phase (Taxi for an Arrival, Climb for a
\* Departure) in the tick that has just ended.
EnteredReleasingPhase(f) ==
    /\ f.stateTime = 0
    /\ \/ f.kind = "Arrival" /\ f.state = "TAXI"
       \/ f.kind = "Departure" /\ f.state = "CLIMB"

\* C13: at the end of the tick in which an aircraft holding a runway enters
\* Taxi (Arrival) or Climb (Departure), the aircraft holds no runway any more
\* and the runway is available with free-since equal to that tick.
C13_ReleasedInSameTick ==
    pc = "idle" =>
      \A i \in Flights :
         EnteredReleasingPhase(allFlights[i])
           => /\ allFlights[i].assignedRunway = NONE
              /\ \A r \in Runways : runwayOccupant[r] # i
              /\ \E r \in Runways :
                    runwayAvailable[r] /\ runwayFreeTime[r] = currentSimulationTime

\* The pending queue an aircraft belongs to: A for arrivals, B for departures.
HomeQueue(f) == IF f.kind = "Arrival" THEN "A" ELSE "B"

\* The aircraft has not been given a runway yet.
NeverAssigned(f) == f.state = InitialPhase(f) /\ f.assignedRunway = NONE

\* C14: every aircraft that has not been given a runway yet is active and in its
\* own pending queue and in no other, the queues hold no other aircraft, and a
\* call of assignRunways attempts no aircraft twice and leaves every aircraft
\* whose attempt failed in the queue it was taken from.
C14_NoRequestLost ==
    /\ \A i \in Flights :
         LET f == allFlights[i] IN
         /\ NeverAssigned(f)
              => /\ \E k \in 1..Len(activeFlights) : activeFlights[k] = i
                 /\ i \in runwayAQueue <=> HomeQueue(f) = "A"
                 /\ i \in runwayBQueue <=> HomeQueue(f) = "B"
                 /\ i \notin runwayCQueue
         /\ ~NeverAssigned(f)
              => i \notin runwayAQueue \cup runwayBQueue \cup runwayCQueue
    /\ \A k, l \in 1..Len(attempts) :
         attempts[k].flight = attempts[l].flight => k = l
    /\ pc = "update"
         => /\ \A k \in 1..Len(attempts) :
                 attempts[k].runway = NONE
                   => /\ attempts[k].queue = "A" => attempts[k].flight \in runwayAQueue
                      /\ attempts[k].queue = "B" => attempts[k].flight \in runwayBQueue
            /\ \A i \in runwayAQueue \cup runwayBQueue :
                 \E k \in 1..Len(attempts) :
                    attempts[k].flight = i /\ attempts[k].queue = HomeQueue(allFlights[i])

\* C14 witness: after a call of assignRunways an arrival and a departure whose
\* attempts failed in earlier ticks and in this one are back in their queues.
C14_Witness ==
    /\ pc = "update"
    /\ \E k, l \in 1..Len(attempts) :
         /\ attempts[k].queue = "A" /\ attempts[k].runway = NONE
         /\ attempts[k].flight \in runwayAQueue
         /\ allFlights[attempts[k].flight].stateTime >= 2
         /\ attempts[l].queue = "B" /\ attempts[l].runway = NONE
         /\ attempts[l].flight \in runwayBQueue
         /\ allFlights[attempts[l].flight].stateTime >= 2

\* The phase that follows the phase of f in the order of its kind.
NextPhase(f) ==
    IF f.kind = "Arrival"
    THEN CASE f.state = "HOLDING" -> "APPROACH"
           [] f.state = "APPROACH" -> "LANDING"
           [] f.state = "LANDING" -> "TAXI"
           [] f.state = "TAXI" -> "AT_GATE"
           [] OTHER -> "none"
    ELSE CASE f.state = "AT_GATE" -> "TAXI"
           [] f.state = "TAXI" -> "TAKEOFF_ROLL"
           [] f.state = "TAKEOFF_ROLL" -> "CLIMB"
           [] f.state = "CLIMB" -> "CRUISE"
           [] OTHER -> "none"

\* The dwell time C15 gives for the phase of f, in ticks.
DwellTicks(f) ==
    CASE f.state = "HOLDING" -> 20
      [] f.state = "APPROACH" -> 15
      [] f.state = "LANDING" -> 10
      [] f.state = "TAXI" -> 15
      [] f.state = "TAKEOFF_ROLL" -> 10
      [] f.state = "CLIMB" -> 20
      [] OTHER -> 0

\* C15: a phase changes only in the update step of a tick, only to the next
\* phase of the aircraft's order, and only when the ticks the aircraft has
\* counted in the phase, this one included, reach the dwell time; the count
\* restarts at 0 with the new phase and grows by one in every other update of an
\* active aircraft; the terminal phase has no next phase.
C15_PhaseOrder ==
    [][\A i \in Flights :
         LET f == allFlights[i]
             g == allFlights'[i]
         IN /\ g.state # f.state
                 => /\ pc = "update"
                    /\ g.state = NextPhase(f)
                    /\ f.stateTime + 1 >= DwellTicks(f)
                    /\ g.stateTime = 0
            /\ (g.state = f.state /\ pc = "update"
                  /\ \E k \in 1..Len(activeFlights) : activeFlights[k] = i)
                 => g.stateTime = f.stateTime + 1
            /\ pc # "update" => g.stateTime = f.stateTime]_vars

\* C15 witness: an arrival has gone through all its phases to the gate and a
\* departure through all its phases to Cruise, while an aircraft that waited for
\* a runway has stayed in Holding beyond the dwell time.
C15_Witness ==
    /\ \E i \in Flights :
         allFlights[i].kind = "Arrival" /\ allFlights[i].state = "AT_GATE"
    /\ \E i \in Flights :
         allFlights[i].kind = "Departure" /\ allFlights[i].state = "CRUISE"
    /\ \E i \in Flights :
         allFlights[i].state = "HOLDING" /\ allFlights[i].stateTime > 20

\* C16: Landing is entered at speed 240 and TakeoffRoll at speed 0; an update
\* that leaves an aircraft in Landing without a violation pin leaves its speed
\* at or below the speed before and within 30..240; an update that leaves an
\* aircraft in TakeoffRoll without a pin leaves its speed at or above the speed
\* before and within 0..290.
C16_RampMonotone ==
    [][\A i \in Flights :
         LET f == allFlights[i]
             g == allFlights'[i]
         IN /\ (g.state = "LANDING" /\ f.state # "LANDING") => g.currentSpeed = 240
            /\ (g.state = "TAKEOFF_ROLL" /\ f.state # "TAKEOFF_ROLL")
                 => g.currentSpeed = 0
            /\ (f.state = "LANDING" /\ g.state = "LANDING"
                  /\ ~g.maintainViolationSpeed)
                 => /\ g.currentSpeed <= f.currentSpeed
                    /\ g.currentSpeed >= 30 /\ g.currentSpeed <= 240
            /\ (f.state = "TAKEOFF_ROLL" /\ g.state = "TAKEOFF_ROLL"
                  /\ ~g.maintainViolationSpeed)
                 => /\ g.currentSpeed >= f.currentSpeed
                    /\ g.currentSpeed >= 0 /\ g.currentSpeed <= 290]_vars

\* C16 witness: one arrival is late in Landing without a pin, below its entry
\* speed, while another arrival in Landing carries a pin.
C16_Witness ==
    \E i, j \in Flights :
        /\ allFlights[i].state = "LANDING" /\ ~allFlights[i].maintainViolationSpeed
        /\ allFlights[i].stateTime >= 6 /\ allFlights[i].currentSpeed < 240
        /\ allFlights[j].state = "LANDING" /\ allFlights[j].maintainViolationSpeed

\* The speeds a phase can be entered with: the range its entry draw is taken
\* from, or the fixed entry speed.
EntrySpeeds(state) ==
    CASE state = "APPROACH" -> 240..290
      [] state = "LANDING" -> {240}
      [] state = "TAXI" -> 15..30
      [] state = "TAKEOFF_ROLL" -> {0}
      [] state = "CLIMB" -> 250..463
      [] state = "CRUISE" -> 800..900
      [] OTHER -> {0}

\* C17: an update that leaves a pinned aircraft in its phase leaves the pin set
\* and the speed and the pinned value at the injected value, and draws no
\* injection for it; an update that changes the phase either ends without a pin
\* and with a speed of the new phase's entry rule, or ends with the pin of a
\* fresh injection, whose value lies outside the entry range of the new phase.
C17_PinHeld ==
    [][\A i \in Flights :
         LET f == allFlights[i]
             g == allFlights'[i]
         IN /\ f.maintainViolationSpeed => f.currentSpeed = f.violationSpeed
            /\ (f.maintainViolationSpeed /\ g.state = f.state)
                 => /\ g.maintainViolationSpeed
                    /\ g.currentSpeed = f.violationSpeed
                    /\ g.violationSpeed = f.violationSpeed
                    /\ f.direction \in scenario.injectable
                         => injections' = injections
            /\ g.state # f.state
                 => \/ ~g.maintainViolationSpeed /\ g.currentSpeed \in EntrySpeeds(g.state)
                    \/ /\ g.maintainViolationSpeed
                       /\ g.currentSpeed = g.violationSpeed
                       /\ g.currentSpeed \notin EntrySpeeds(g.state)
                       /\ injections' = injections + 1]_vars

\* C17 witness: after two injections an aircraft is pinned in its second
\* violated phase, ticks after the notice of that phase was issued, at the
\* speed the notice recorded.
C17_Witness ==
    /\ injections = MaxInjections + 1
    /\ \E i \in Flights : \E n \in Notices :
         /\ allFlights[i].maintainViolationSpeed
         /\ Cardinality(allFlights[i].violatedStates) = 2
         /\ allAVNs[n].flightNumber = allFlights[i].flightNumber
         /\ allAVNs[n].inState = allFlights[i].state
         /\ allAVNs[n].issueTime + 2 <= currentSimulationTime
         /\ allFlights[i].currentSpeed = allAVNs[n].recordedSpeed

\* The speed test of the phase rule.
OutsideRule(state, v) ==
    CASE state = "HOLDING" -> v > 600
      [] state = "APPROACH" -> v < 240 \/ v > 290
      [] state = "TAXI" -> v > 30
      [] state = "AT_GATE" -> v > 5
      [] state = "TAKEOFF_ROLL" -> v > 290
      [] state = "CLIMB" -> v > 463
      [] state = "CRUISE" -> v < 800 \/ v > 900
      [] OTHER -> FALSE

\* The band a notice of the phase records.
RuleBand(state) ==
    CASE state = "HOLDING" -> <<400, 600>>
      [] state = "APPROACH" -> <<240, 290>>
      [] state = "TAXI" -> <<15, 30>>
      [] state = "AT_GATE" -> <<0, 5>>
      [] state = "TAKEOFF_ROLL" -> <<0, 290>>
      [] state = "CLIMB" -> <<250, 463>>
      [] state = "CRUISE" -> <<800, 900>>
      [] OTHER -> <<0, 0>>

\* C18: for an aircraft in Holding, Approach, Taxi, AtGate, TakeoffRoll, Climb
\* or Cruise, a call of checkViolation creates a notice exactly when the phase
\* is not among the aircraft's violated phases and the speed fails the phase
\* rule; the notice records the aircraft's speed and the band of the phase, and
\* the commercial fine for a Commercial aircraft; the phase joins the violated
\* phases and the violation-open flag is set; a call that creates no notice
\* leaves the aircraft as it was.
C18_NoticeRule ==
    [][\A i \in Flights :
         LET f == allFlights[i]
             g == allFlights'[i]
             created == g.currentViolation # << >>
         IN (pc = "call" /\ f.state # "LANDING")
              => /\ created <=> /\ f.state \notin f.violatedStates
                                /\ OutsideRule(f.state, f.currentSpeed)
                 /\ created
                      => /\ g.currentViolation[1].recordedSpeed = f.currentSpeed
                         /\ <<g.currentViolation[1].permissibleSpeedMin,
                               g.currentViolation[1].permissibleSpeedMax>>
                              = RuleBand(f.state)
                         /\ g.currentViolation[1].flightNumber = f.flightNumber
                         /\ f.type = "COMMERCIAL"
                              => g.currentViolation[1].fineAmount = 500000
                         /\ g.hasActiveViolation
                         /\ g.violatedStates = f.violatedStates \cup {f.state}
                         /\ g.currentSpeed = f.currentSpeed /\ g.state = f.state
                 /\ ~created => g = f]_vars

\* C18 witness: checkViolation was called on a Commercial arrival in Holding at
\* speed 650 and left one notice with band [400,600] and the commercial fine.
C18_Witness ==
    /\ pc = "called"
    /\ \E i \in Flights :
         LET f == allFlights[i] IN
         /\ f.kind = "Arrival" /\ f.type = "COMMERCIAL" /\ f.state = "HOLDING"
         /\ f.currentSpeed = 650
         /\ Len(f.currentViolation) = 1
         /\ f.currentViolation[1].recordedSpeed = 650
         /\ f.currentViolation[1].permissibleSpeedMin = 400
         /\ f.currentViolation[1].permissibleSpeedMax = 600
         /\ f.currentViolation[1].fineAmount = 500000

ListEntries ==
    {e \in (DOMAIN airlines) \X (1..(Len(allAVNs) + 1)) :
        e[2] <= Len(airlines[e[1]].violations)}

\* C20: at every point of every tick the number of notices created (the ids
\* handed out by the two id counters), of ledger entries, of entries in all
\* airline lists and of messages sent is the same; the n-th ledger entry is
\* held exactly once in the airline lists, in the list of its own airline, and
\* the n-th message is an AVN_CREATED message with its id, recorded speed and
\* band; no aircraft is left with an unforwarded notice.
C20_ForwardedOnce ==
    /\ Len(allAVNs) = (arrivalAvnIdCounter - 1000) + (departureAvnIdCounter - 1000)
    /\ Len(avnPipe) = Len(allAVNs)
    /\ Cardinality(ListEntries) = Len(allAVNs)
    /\ \A a \in DOMAIN airlines : Len(airlines[a].violations) <= Len(allAVNs)
    /\ \A n \in Notices :
         /\ Cardinality({e \in ListEntries : airlines[e[1]].violations[e[2]] = n}) = 1
         /\ \E k \in 1..Len(airlines[allAVNs[n].airline].violations) :
              airlines[allAVNs[n].airline].violations[k] = n
         /\ avnPipe[n].type = "AVN_CREATED"
         /\ avnPipe[n].avnId = allAVNs[n].id
         /\ avnPipe[n].amount = allAVNs[n].recordedSpeed
         /\ avnPipe[n].minSpeed = allAVNs[n].permissibleSpeedMin
         /\ avnPipe[n].maxSpeed = allAVNs[n].permissibleSpeedMax
         /\ avnPipe[n].flightNumber = allAVNs[n].flightNumber
    /\ \A i \in Flights :
         ~allFlights[i].hasActiveViolation /\ allFlights[i].currentViolation = << >>

\* C20 witness: two notices have been created in different ticks, and the
\* ledger, the airline's list and the pipe hold two entries each, ticks after
\* the second notice.
C20_Witness ==
    /\ Len(allAVNs) = 2 /\ Len(avnPipe) = 2
    /\ allAVNs[1].issueTime < allAVNs[2].issueTime
    /\ allAVNs[2].issueTime < currentSimulationTime
    /\ Len(airlines[allAVNs[2].airline].violations) = 2
    /\ avnPipe[2].avnId = 1001

\* C21: the ids of the notices of the ledger increase in creation order, and so
\* are pairwise distinct, whichever class of aircraft they were created for.
C21_DistinctIds ==
    \A m, n \in Notices : m < n => allAVNs[m].id < allAVNs[n].id

\* The streams as the cadence rule names them: direction, first-activation
\* tick, interval, and the tick of the stream's last spawn.
CadenceRule ==
    << <<"NORTH", 1, 180, lastNorthArrival>>, <<"SOUTH", 2, 120, lastSouthArrival>>,
       <<"EAST", 3, 150, lastEastDeparture>>, <<"WEST", 4, 240, lastWestDeparture>> >>

\* C22: the generate step of a tick spawns, for each stream, exactly one
\* aircraft when the tick is the stream's first-activation tick or the tick
\* minus the stream's last spawn tick has reached its interval, and none
\* otherwise; a spawned arrival is in queue A and in the active set, a spawned
\* departure in queue B and in the active set; no other step spawns.
C22_SpawnCadence ==
    [][LET new == (Len(allFlights) + 1)..Len(allFlights') IN
       /\ pc # "generate" => new = {}
       /\ pc = "generate" =>
            /\ \A k \in 1..4 :
                 LET r == CadenceRule[k]
                     due == currentSimulationTime = r[2]
                              \/ currentSimulationTime - r[4] >= r[3]
                 IN Cardinality({i \in new : allFlights'[i].direction = r[1]})
                      = IF due THEN 1 ELSE 0
            /\ \A i \in new :
                 /\ \E j \in 1..Len(activeFlights') : activeFlights'[j] = i
                 /\ allFlights'[i].direction \in {"NORTH", "SOUTH"}
                      => allFlights'[i].kind = "Arrival" /\ i \in runwayAQueue'
                 /\ allFlights'[i].direction \in {"EAST", "WEST"}
                      => allFlights'[i].kind = "Departure" /\ i \in runwayBQueue']_vars

\* C22 witness: every stream has spawned at its first-activation tick and again
\* one interval later (ticks 181, 122 and 242, 153, 244).
C22_Witness ==
    /\ currentSimulationTime >= 244
    /\ lastNorthArrival = 181 /\ lastSouthArrival = 242
    /\ lastEastDeparture = 153 /\ lastWestDeparture = 244
    /\ Len(allFlights) = 9

\* How often aircraft i is held in the sequence q.
Held(q, i) == Cardinality({j \in 1..Len(q) : q[j] = i})

\* The terminal phase of the aircraft's class.
Terminal(f) ==
    IF f.kind = "Arrival" THEN f.state = "AT_GATE" ELSE f.state = "CRUISE"

\* C23: after every step each spawned aircraft is held exactly once in the
\* active set and the completed set together; a step that ends a tick leaves
\* in the completed set exactly the aircraft in their terminal phase; an
\* aircraft of the completed set stays there and no step changes any of its
\* fields.
C23_CompletedIsFinal ==
    [][/\ \A i \in 1..Len(allFlights') :
            /\ Held(activeFlights', i) + Held(completedFlights', i) = 1
            /\ pc' = "idle" =>
                 (Held(completedFlights', i) = 1 <=> Terminal(allFlights'[i]))
       /\ \A i \in Flights :
            Held(completedFlights, i) = 1
              => Held(completedFlights', i) = 1 /\ allFlights'[i] = allFlights[i]]_vars

\* C23 witness: a tick after an arrival with a recorded violation and a
\* departure were moved to the completed set, other aircraft still being
\* active.
C23_Witness ==
    /\ pc = "update"
    /\ activeFlights # << >>
    /\ \E i, j \in Flights :
         /\ Held(completedFlights, i) = 1 /\ Held(completedFlights, j) = 1
         /\ allFlights[i].kind = "Arrival" /\ allFlights[i].state = "AT_GATE"
         /\ allFlights[i].violatedStates # {}
         /\ allFlights[j].kind = "Departure" /\ allFlights[j].state = "CRUISE"

\* The scheduler's fields: everything but the place of main and the screen.
SchedulerState ==
    <<currentSimulationTime, lastNorthArrival, lastSouthArrival, lastEastDeparture,
      lastWestDeparture, allFlights, activeFlights, completedFlights, airlines,
      allAVNs, runwayAvailable, runwayOccupant, runwayFreeTime, runwayAQueue,
      runwayBQueue, runwayCQueue, arrivalAvnIdCounter, departureAvnIdCounter, avnPipe>>

\* C24: the steps of a tick follow each other as clock and generate, assign and
\* release, advance, retire, and the next tick or the menu comes only after
\* retire; aircraft are spawned only by generate, runways change only in
\* assign/release, phases only in advance, the completed set only in retire;
\* the clock grows by one when a tick starts and at no other step; the step to
\* the menu changes nothing of the scheduler, and the step from the menu back
\* into the loop starts the tick after the last one.
C24_TickOrder ==
    [][/\ <<pc, pc'>> \in {<<"menu", "generate">>, <<"idle", "generate">>,
                          <<"generate", "assign">>, <<"assign", "update">>,
                          <<"update", "move">>, <<"move", "idle">>,
                          <<"idle", "menu">>, <<"menu", "menu">>}
       /\ currentSimulationTime' =
            IF pc' = "generate" THEN currentSimulationTime + 1 ELSE currentSimulationTime
       /\ Len(allFlights') # Len(allFlights) => pc = "generate"
       /\ <<runwayAvailable, runwayOccupant, runwayFreeTime>>'
            # <<runwayAvailable, runwayOccupant, runwayFreeTime>> => pc = "assign"
       /\ (\E i \in Flights : allFlights'[i].state # allFlights[i].state
                               \/ allFlights'[i].stateTime # allFlights[i].stateTime)
            => pc = "update"
       /\ completedFlights' # completedFlights => pc = "move"
       /\ pc' = "menu" /\ pc # "menu" => SchedulerState' = SchedulerState
       /\ pc = "menu" /\ pc' # "menu" =>
            /\ currentSimulationTime' = currentSimulationTime + 1
            /\ <<allFlights, activeFlights, completedFlights, allAVNs, runwayAvailable,
                  runwayOccupant, runwayAQueue, runwayBQueue, runwayCQueue>>'
                 = <<allFlights, activeFlights, completedFlights, allAVNs,
                     runwayAvailable, runwayOccupant, runwayAQueue, runwayBQueue,
                     runwayCQueue>>]_vars

\* C24 witness: the loop runs again, ticks after a notice was issued, and the
\* notice has been paid, which is done from the menu only: the simulation was
\* stopped and started again.
C24_Witness ==
    /\ pc = "update"
    /\ \E n \in Notices :
         /\ allAVNs[n].status = "PAID"
         /\ currentSimulationTime > allAVNs[n].issueTime + 1

C26_UnknownIdLeavesState ==
    [][(pc = "menu" /\ pc' = "menu")
         => LET unknown == \A n \in Notices : allAVNs[n].id # console'.avnId IN
            /\ console'.call \in {"processAVNPayment", "displayAVNDetails"}
            /\ unknown <=> console'.text = "AVN not found"
            /\ unknown => SchedulerState' = SchedulerState]_vars

\* C26 witness: with a notice in the ledger, processAVNPayment was called with
\* an id that no notice has and printed not-found.
C26_Witness ==
    /\ pc = "menu"
    /\ allAVNs # << >>
    /\ console.call = "processAVNPayment"
    /\ \A n \in Notices : allAVNs[n].id # console.avnId /\ allAVNs[n].status = "UNPAID"
    /\ console.text = "AVN not found"

\* The legal band of a phase.
LegalBand(state) ==
    CASE state = "HOLDING" -> 400..600
      [] state = "APPROACH" -> 240..290
      [] state = "LANDING" -> 30..240
      [] state = "TAXI" -> 15..30
      [] state = "TAKEOFF_ROLL" -> 0..290
      [] state = "CLIMB" -> 250..463
      [] state = "CRUISE" -> 800..900
      [] OTHER -> {0}

\* C27: an update in which the injection step pins an aircraft's speed leaves
\* the speed outside the legal band of the aircraft's phase and a new notice
\* for that phase in the ledger; every pinned aircraft has a recorded violation
\* of its phase.
C27_InjectionViolates ==
    [][\A i \in Flights :
         LET f == allFlights[i]
             g == allFlights'[i]
             fired == /\ g.maintainViolationSpeed
                      /\ ~f.maintainViolationSpeed \/ g.state # f.state
         IN /\ fired
                 => /\ g.currentSpeed \notin LegalBand(g.state)
                    /\ \E n \in (Len(allAVNs) + 1)..Len(allAVNs') :
                         /\ allAVNs'[n].flightNumber = g.flightNumber
                         /\ allAVNs'[n].inState = g.state
                         /\ allAVNs'[n].recordedSpeed = g.currentSpeed
            /\ g.maintainViolationSpeed => g.state \in g.violatedStates]_vars

\* The speed an aircraft that has spent t ticks in Landing is expected to have.
LandingCeiling(t) ==
    IF 240 - (210 * t) \div 10 > 30 THEN 240 - (210 * t) \div 10 ELSE 30

\* C28: an aircraft in Landing whose speed is above the expected speed for the
\* ticks it has spent in Landing (30 once the 10 ticks have passed) has a
\* recorded Landing violation: checkViolation raised it in the update that
\* produced the speed.
C28_LandingCeiling ==
    \A i \in Flights :
       LET f == allFlights[i] IN
       (f.state = "LANDING" /\ f.currentSpeed > LandingCeiling(f.stateTime))
         => "LANDING" \in f.violatedStates

\* C29: every AVN_CREATED message names, in its details field, the flight
\* category of the aircraft that violated, and the notice of the ledger written
\* with the message carries the fine of that category: the commercial fine
\* exactly for a Commercial aircraft, the cargo fine exactly for a Cargo one.
C29_CategoryOfViolator ==
    \A n \in DOMAIN avnPipe :
      \A i \in Flights :
         allFlights[i].flightNumber = avnPipe[n].flightNumber
           => /\ avnPipe[n].details = allFlights[i].type
              /\ n \in Notices
                   => /\ allAVNs[n].fineAmount = 500000
                           <=> allFlights[i].type = "COMMERCIAL"
                      /\ allAVNs[n].fineAmount = 700000
                           <=> allFlights[i].type = "CARGO"

\* C30: the notice the AVN Generator stores for a message has the notice id
\* the message carries, so the k-th notice of the generator and the k-th notice
\* of the scheduler's ledger have the same id.
C30_SameIdInLedgerService ==
    \A k \in DOMAIN avns :
       /\ avns[k].id = avnPipe[k].avnId
       /\ avns[k].id = allAVNs[k].id

C32_PaymentReachesNotice ==
    [][(pc = "menu" /\ pc' = "menu" /\ console'.call = "processAVNPayment")
         => \A n \in Notices :
              (/\ allAVNs[n].id = console'.avnId
               /\ allAVNs[n].totalAmount = console'.amount)
                => allAVNs'[n].status = "PAID"]_vars

\* The aircraft in the pending queues.
Queued == runwayAQueue \cup runwayBQueue \cup runwayCQueue

\* C33: a step that gives an aircraft a runway finds it in a pending queue, in
\* its first phase, and takes it out of the queue; an aircraft that is in no
\* queue is never put into one.  So an aircraft is given a runway at most once:
\* after the release no later tick assigns it a runway again.
C33_AssignedOnce ==
    [][\A i \in Flights :
         LET f == allFlights[i]
             g == allFlights'[i]
         IN /\ (f.assignedRunway = NONE /\ g.assignedRunway # NONE)
                 => /\ i \in Queued
                    /\ i \notin Queued'
                    /\ f.state = InitialPhase(f)
            /\ i \notin Queued => i \notin Queued'
            /\ (f.assignedRunway # NONE /\ g.assignedRunway # NONE)
                 => g.assignedRunway = f.assignedRunway]_vars

\* C33 witness: an arrival that was given a runway and has released it is past
\* a further call of assignRunways, in which a runway was eligible, and has no
\* runway and is in no queue.
C33_Witness ==
    /\ pc = "update"
    /\ \E i \in Flights :
         LET f == allFlights[i] IN
         /\ f.kind = "Arrival" /\ f.state = "TAXI" /\ f.stateTime >= 2
         /\ f.assignedRunway = NONE
         /\ i \notin Queued
         /\ \E r \in Usable(f) : runwayAvailable[r]

\* C34: every runway occupant is in the active set, and an aircraft of the
\* completed set has no runway and is the occupant of none: its runway was
\* released before it was retired.
C34_OccupantsActive ==
    /\ \A r \in Runways :
         runwayOccupant[r] # NoFlight
           => \E k \in 1..Len(activeFlights) : activeFlights[k] = runwayOccupant[r]
    /\ \A k \in 1..Len(completedFlights) :
         /\ allFlights[completedFlights[k]].assignedRunway = NONE
         /\ \A r \in Runways : runwayOccupant[r] # completedFlights[k]

\* C34 witness: an arrival and a departure are in the completed set while a
\* runway is held by an active aircraft.
C34_Witness ==
    /\ \E k, l \in 1..Len(completedFlights) :
         /\ allFlights[completedFlights[k]].kind = "Arrival"
         /\ allFlights[completedFlights[l]].kind = "Departure"
    /\ \E r \in Runways : runwayOccupant[r] # NoFlight

\* The call of assignRunways, of updateFlights, of moveCompletedFlights of
\* tick T has returned.
AssignDone(T) ==
    \/ currentSimulationTime > T
    \/ currentSimulationTime = T /\ pc \in {"update", "move", "idle"}
UpdateDone(T) ==
    \/ currentSimulationTime > T
    \/ currentSimulationTime = T /\ pc \in {"move", "idle"}
RetireDone(T) ==
    \/ currentSimulationTime > T
    \/ currentSimulationTime = T /\ pc = "idle"

\* The aircraft is in the completed set.
Retired(i) == \E k \in 1..Len(completedFlights) : completedFlights[k] = i

\* C35: for an aircraft given its runway in tick t, an arrival has released the
\* runway once assignRunways of tick t+45 has run and is at the gate and in the
\* completed set once tick t+59 is over; a departure holds the runway until
\* assignRunways of tick t+26 and not after it, enters Cruise in tick t+45 and
\* is in the completed set from the end of tick t+45 and not before.
C35_LifeAfterAssignment ==
    \A i \in DOMAIN assignedAt :
       LET f == allFlights[i]
           t == assignedAt[i]
       IN t > 0
            => IF f.kind = "Arrival"
               THEN /\ AssignDone(t + 45) => f.assignedRunway = NONE
                    /\ RetireDone(t + 59) => f.state = "AT_GATE" /\ Retired(i)
               ELSE /\ f.assignedRunway = NONE <=> AssignDone(t + 26)
                    /\ f.state = "CRUISE" <=> UpdateDone(t + 45)
                    /\ Retired(i) <=> RetireDone(t + 45)

\* C35 witness: at the end of a tick an arrival given its runway 59 ticks ago
\* and a departure given its runway at least 45 ticks ago are in the completed
\* set, and a departure that had to wait for its runway has released it.
C35_Witness ==
    /\ pc = "idle"
    /\ \E i, j, k \in DOMAIN assignedAt :
         /\ allFlights[i].kind = "Arrival" /\ assignedAt[i] > 0
         /\ currentSimulationTime = assignedAt[i] + 59 /\ Retired(i)
         /\ allFlights[j].kind = "Departure" /\ assignedAt[j] > 0
         /\ Retired(j)
         /\ allFlights[k].kind = "Departure"
         /\ assignedAt[k] > allFlights[k].scheduledTime
         /\ allFlights[k].state = "CLIMB" /\ allFlights[k].assignedRunway = NONE

\* C36: the speed of an aircraft that is not pinned is inside the legal band of
\* its phase (0 at the gate); a step that creates a notice leaves the aircraft
\* pinned at the speed the notice records; and no notice belongs to an aircraft
\* with the emergency flag set.
C36_NaturalSpeedLegal ==
    [][/\ \A i \in 1..Len(allFlights') :
            LET g == allFlights'[i] IN
            /\ ~g.maintainViolationSpeed => g.currentSpeed \in LegalBand(g.state)
            /\ \A n \in (Len(allAVNs) + 1)..Len(allAVNs') :
                 allAVNs'[n].flightNumber = g.flightNumber
                   => /\ g.maintainViolationSpeed
                      /\ g.violationSpeed = allAVNs'[n].recordedSpeed
                      /\ ~g.isEmergency]_vars

\* C36 witness: at the end of a run an arrival with the emergency flag set is
\* at the gate, unpinned aircraft have been seen at the low end of the Taxi
\* band and the high end of the Climb band, and the only notice of the ledger
\* belongs to an aircraft without the flag.
C36_Witness ==
    /\ Len(allAVNs) = 1
    /\ \E i, j, k \in Flights :
         /\ allFlights[i].isEmergency /\ allFlights[i].state = "TAXI"
         /\ allFlights[i].currentSpeed = 15 /\ ~allFlights[i].maintainViolationSpeed
         /\ allFlights[j].state = "CLIMB" /\ allFlights[j].currentSpeed = 463
         /\ ~allFlights[j].maintainViolationSpeed
         /\ ~allFlights[k].isEmergency
         /\ allAVNs[1].flightNumber = allFlights[k].flightNumber

\* Amount a is smaller than amount b.
Smaller(a, b) == a.whole < b.whole \/ (a.whole = b.whole /\ a.frac < b.frac)

\* C37: a notice enters the ledger UNPAID; its status changes only in a call
\* of processAVNPayment made with its id and an amount that is not smaller than
\* its total, and then to PAID; a call with its id and a smaller amount leaves
\* the notice as it was; a PAID notice stays PAID; no notice is ever OVERDUE.
C37_StatusChanges ==
    [][\A n \in 1..Len(allAVNs') :
         LET b == allAVNs'[n]
             payment == pc = "menu" /\ pc' = "menu"
                          /\ console'.call = "processAVNPayment"
         IN /\ b.status \in {"UNPAID", "PAID"}
            /\ n > Len(allAVNs) => b.status = "UNPAID"
            /\ n <= Len(allAVNs)
                 => LET a == allAVNs[n] IN
                    /\ a.status # b.status
                         => /\ payment
                            /\ console'.avnId = a.id
                            /\ ~Smaller(console'.amount, a.totalAmount)
                            /\ b.status = "PAID"
                    /\ (payment /\ console'.avnId = a.id
                          /\ Smaller(console'.amount, a.totalAmount))
                         => b = a
                    /\ a.status = "PAID" => b.status = "PAID"]_vars

\* C37 witness: a call of processAVNPayment with too small an amount has just
\* been refused while the ledger holds a PAID and an UNPAID notice.
C37_Witness ==
    /\ pc = "menu"
    /\ console.call = "processAVNPayment"
    /\ console.text = "Insufficient payment"
    /\ \E n, m \in Notices :
         /\ allAVNs[n].status = "PAID"
         /\ allAVNs[m].status = "UNPAID"
         /\ Smaller(console.amount, allAVNs[m].totalAmount)

\* C38: over all runs of the simulation option together the scheduler's clock
\* never passes SIMULATION_TIME; whenever no tick is in progress main's counter
\* equals the clock; and once the clock stands at SIMULATION_TIME no step
\* leaves the menu or changes the scheduler.
C38_SimulationTerminates ==
    /\ [](currentSimulationTime <= SIMULATION_TIME)
    /\ [](pc \in {"idle", "menu"} => simulationTime = currentSimulationTime)
    /\ [][(pc = "menu" /\ currentSimulationTime >= SIMULATION_TIME)
            => (pc' = "menu" /\ SchedulerState' = SchedulerState)]_vars

C38_Witness ==
    /\ pc = "menu"
    /\ currentSimulationTime = SIMULATION_TIME
    /\ simulationTime = SIMULATION_TIME
    /\ console.text = "Simulation completed!"

\* C40: the AVN Generator outlives every message it processes: it is running in
\* every state, and for every notice it has stored its notification has been
\* written to the pipe avnToAirline.
C40_GeneratorKeepsRunning ==
    /\ generator = "running"
    /\ Len(avnToAirline) = Len(avns)

====
